---------------------------- MODULE Spec2Model ----------------------------
(***************************************************************************)
(* A model of the staging layer of Spine-Database-API:                     *)
(*   - spinedb_api/temp_id.py: TempId (placeholder identifiers and their   *)
(*     bind lists) and TempIdDict (the dictionary that registers binds);   *)
(*   - spinedb_api/diff_database_mapping_base.py: the diff dictionaries,   *)
(*     the diff tables, _mark_as_dirty, _clear_subqueries, _subquery;      *)
(*   - spinedb_api/database_mapping_base.py: the cached subquery           *)
(*     properties and the tables they are composed of;                     *)
(*   - spinedb_api/import_mapping/import_mapping_compat.py: _pos_and_val,  *)
(*     the positions of the mappings of a legacy document.                 *)
(* The staging calls and commit_session are not part of the sources at     *)
(* hand; they are modelled from the specification (sections 4.2 - 4.4).    *)
(***************************************************************************)
EXTENDS Integers, Sequences, FiniteSets, TLC

(***************************************************************************)
(* Python values.  An atom is an int, a TempId (an int subclass that also  *)
(* carries an item type and has an identity), a str or None.  An object    *)
(* that is used as a dictionary key or value is a scalar atom or a tuple   *)
(* of atoms.                                                               *)
(***************************************************************************)
IntOf(n) == [kind |-> "int", ty |-> "", v |-> n]
Str(s) == [kind |-> "str", ty |-> s, v |-> 0]
None == [kind |-> "none", ty |-> "", v |-> 0]
TempIdOf(t, n) == [kind |-> "tmp", ty |-> t, v |-> n]

IsTempId(a) == a.kind = "tmp"
IsNumber(a) == a.kind \in {"int", "tmp"}

\* a == b of Python: TempId inherits __eq__ and __hash__ from int
PyEq(a, b) == IF IsNumber(a) /\ IsNumber(b) THEN a.v = b.v ELSE a = b

Scalar(a) == [tup |-> FALSE, el |-> <<a>>]
Tuple(s) == [tup |-> TRUE, el |-> s]
IsTuple(x) == x.tup
IsTempIdObj(x) == ~x.tup /\ IsTempId(x.el[1])
AtomOf(x) == x.el[1]

ObjEq(x, y) ==
    /\ x.tup = y.tup
    /\ Len(x.el) = Len(y.el)
    /\ \A i \in 1..Len(x.el) : PyEq(x.el[i], y.el[i])

\* the TempId atoms an object holds
TempIdsIn(x) == {x.el[i] : i \in {j \in 1..Len(x.el) : IsTempId(x.el[j])}}
HoldsTempId(x) == TempIdsIn(x) # {}

(***************************************************************************)
(* dict: a set of entries, at most one per key up to ==.                   *)
(***************************************************************************)
HasKey(d, k) == \E e \in d : ObjEq(e.k, k)
EntryOf(d, k) == CHOOSE e \in d : ObjEq(e.k, k)
GetItem(d, k) == EntryOf(d, k).v
\* dict.__setitem__: an equal key keeps the key object it already has
DictSet(d, k, v) ==
    IF HasKey(d, k)
    THEN (d \ {EntryOf(d, k)}) \cup {[k |-> EntryOf(d, k).k, v |-> v]}
    ELSE d \cup {[k |-> k, v |-> v]}
DictDel(d, k) == d \ {e \in d : ObjEq(e.k, k)}
\* dict.__eq__
DictEq(d1, d2) ==
    /\ Cardinality(d1) = Cardinality(d2)
    /\ \A e \in d1 : HasKey(d2, e.k) /\ ObjEq(GetItem(d2, e.k), e.v)

(***************************************************************************)
(* The heap the methods of temp_id.py work on: h.d maps a container to its *)
(* entries, h.b maps a TempId to its four bind lists, h.err is the         *)
(* exception the running call has raised ("" when none).                   *)
(***************************************************************************)
NoBinds == [vb |-> <<>>, tvb |-> <<>>, kb |-> <<>>, tkb |-> <<>>]
Raise(h, e) == IF h.err = "" THEN [h EXCEPT !.err = e] ELSE h

add_value_bind(h, p, item, key) ==
    [h EXCEPT !.b[p].vb = Append(@, <<item, key>>)]
add_tuple_value_bind(h, p, item, key) ==
    [h EXCEPT !.b[p].tvb = Append(@, <<item, key>>)]
add_key_bind(h, p, item) ==
    [h EXCEPT !.b[p].kb = Append(@, item)]
add_tuple_key_bind(h, p, item, key) ==
    [h EXCEPT !.b[p].tkb = Append(@, <<item, key>>)]

\* x == y for two containers as list.remove compares them: the same object,
\* or two dictionaries with equal contents
ItemEq(h, x, y) == x = y \/ DictEq(h.d[x], h.d[y])

RemoveAt(s, i) == SubSeq(s, 1, i - 1) \o SubSeq(s, i + 1, Len(s))

remove_key_bind(h, p, item) ==
    LET hits == {i \in 1..Len(h.b[p].kb) : ItemEq(h, h.b[p].kb[i], item)}
    IN  IF hits = {} THEN Raise(h, "ValueError")
        ELSE LET i == CHOOSE j \in hits : \A m \in hits : j <= m
             IN  [h EXCEPT !.b[p].kb = RemoveAt(@, i)]

remove_tuple_key_bind(h, p, item, key) ==
    LET hits == {i \in 1..Len(h.b[p].tkb) :
                    /\ ItemEq(h, h.b[p].tkb[i][1], item)
                    /\ ObjEq(h.b[p].tkb[i][2], key)}
    IN  IF hits = {} THEN Raise(h, "ValueError")
        ELSE LET i == CHOOSE j \in hits : \A m \in hits : j <= m
             IN  [h EXCEPT !.b[p].tkb = RemoveAt(@, i)]

RECURSIVE BindTupleValue(_, _, _, _, _)
BindTupleValue(h, item, key, value, i) ==
    IF i > Len(value.el) THEN h
    ELSE BindTupleValue(
            IF IsTempId(value.el[i])
            THEN add_tuple_value_bind(h, value.el[i], item, key) ELSE h,
            item, key, value, i + 1)

RECURSIVE BindTupleKey(_, _, _, _)
BindTupleKey(h, item, key, i) ==
    IF i > Len(key.el) THEN h
    ELSE BindTupleKey(
            IF IsTempId(key.el[i])
            THEN add_tuple_key_bind(h, key.el[i], item, key) ELSE h,
            item, key, i + 1)

\* the branch of TempIdDict._bind that registers an entry whose value is
\* neither a TempId nor a tuple
BindKey(h, item, key) ==
    IF IsTempIdObj(key) THEN add_key_bind(h, AtomOf(key), item)
    ELSE IF IsTuple(key) THEN BindTupleKey(h, item, key, 1)
    ELSE h

_bind(h, item, key, value) ==
    IF IsTempIdObj(value) THEN add_value_bind(h, AtomOf(value), item, key)
    ELSE IF IsTuple(value) THEN BindTupleValue(h, item, key, value, 1)
    ELSE BindKey(h, item, key)

RECURSIVE UnbindTupleKey(_, _, _, _)
UnbindTupleKey(h, item, key, i) ==
    IF i > Len(key.el) \/ h.err # "" THEN h
    ELSE UnbindTupleKey(
            IF IsTempId(key.el[i])
            THEN remove_tuple_key_bind(h, key.el[i], item, key) ELSE h,
            item, key, i + 1)

_unbind(h, item, key) ==
    IF IsTempIdObj(key) THEN remove_key_bind(h, AtomOf(key), item)
    ELSE IF IsTuple(key) THEN UnbindTupleKey(h, item, key, 1)
    ELSE h

\* TempIdDict.__setitem__
SetItem(h, item, key, value) ==
    _bind([h EXCEPT !.d[item] = DictSet(@, key, value)], item, key, value)

\* TempIdDict.__delitem__
DelItem(h, item, key) ==
    IF ~HasKey(h.d[item], key) THEN Raise(h, "KeyError")
    ELSE _unbind([h EXCEPT !.d[item] = DictDel(@, key)], item, key)

\* TempIdDict.setdefault
SetDefault(h, item, key, default) ==
    LET h1 == IF HasKey(h.d[item], key) THEN h
              ELSE [h EXCEPT !.d[item] = DictSet(@, key, default)]
    IN  _bind(h1, item, key, GetItem(h1.d[item], key))

\* TempIdDict.pop
Pop(h, item, key) ==
    IF ~HasKey(h.d[item], key) THEN h
    ELSE LET h1 == _unbind(h, item, key)
         IN  IF h1.err # "" THEN h1
             ELSE [h1 EXCEPT !.d[item] = DictDel(@, key)]

(***************************************************************************)
(* TempId.resolve: the four loops over the bind lists.                     *)
(***************************************************************************)
\* tuple(new_id if v is self else v for v in value)
Substitute(x, p, new_id) ==
    Tuple([i \in 1..Len(x.el) |-> IF x.el[i] = p THEN new_id ELSE x.el[i]])

RECURSIVE ResolveValues(_, _, _, _)
ResolveValues(h, p, new_id, i) ==
    IF i > Len(h.b[p].vb) THEN h
    ELSE ResolveValues(
            SetItem(h, h.b[p].vb[i][1], h.b[p].vb[i][2], Scalar(new_id)),
            p, new_id, i + 1)

\* what iterating a value yields: a tuple its elements, a str its characters
\* (the strings of the model have one character), an int or None nothing
Iterable(x) == IsTuple(x) \/ AtomOf(x).kind = "str"

RECURSIVE ResolveTupleValues(_, _, _, _)
ResolveTupleValues(h, p, new_id, i) ==
    IF i > Len(h.b[p].tvb) \/ h.err # "" THEN h
    ELSE LET item == h.b[p].tvb[i][1]
             key == h.b[p].tvb[i][2]
         IN  ResolveTupleValues(
                IF ~HasKey(h.d[item], key) THEN Raise(h, "KeyError")
                ELSE IF ~Iterable(GetItem(h.d[item], key))
                     THEN Raise(h, "TypeError")
                     ELSE SetItem(h, item, key,
                                  Substitute(GetItem(h.d[item], key), p, new_id)),
                p, new_id, i + 1)

RECURSIVE ResolveKeys(_, _, _, _)
ResolveKeys(h, p, new_id, i) ==
    IF i > Len(h.b[p].kb) \/ h.err # "" THEN h
    ELSE LET item == h.b[p].kb[i]
         IN  ResolveKeys(
                IF HasKey(h.d[item], Scalar(p))
                THEN SetItem([h EXCEPT !.d[item] = DictDel(@, Scalar(p))],
                             item, Scalar(new_id), GetItem(h.d[item], Scalar(p)))
                ELSE h,
                p, new_id, i + 1)

RECURSIVE ResolveTupleKeys(_, _, _, _)
ResolveTupleKeys(h, p, new_id, i) ==
    IF i > Len(h.b[p].tkb) \/ h.err # "" THEN h
    ELSE LET item == h.b[p].tkb[i][1]
             key == h.b[p].tkb[i][2]
         IN  ResolveTupleKeys(
                IF HasKey(h.d[item], key)
                THEN SetItem([h EXCEPT !.d[item] = DictDel(@, key)],
                             item, Substitute(key, p, new_id),
                             GetItem(h.d[item], key))
                ELSE h,
                p, new_id, i + 1)

\* resolve without the loop over the tuple value binds
resolve_scalars_only(h, p, new_id) ==
    ResolveTupleKeys(
        ResolveKeys(ResolveValues(h, p, new_id, 1), p, new_id, 1),
        p, new_id, 1)

\* resolve that refuses a placeholder nothing is bound to
resolve_needs_binds(h, p, new_id) ==
    IF h.b[p] = NoBinds THEN Raise(h, "ValueError")
    ELSE ResolveTupleKeys(
            ResolveKeys(
                ResolveTupleValues(
                    ResolveValues(h, p, new_id, 1), p, new_id, 1),
                p, new_id, 1),
            p, new_id, 1)

resolve(h, p, new_id) ==
    ResolveTupleKeys(
        ResolveKeys(
            ResolveTupleValues(
                ResolveValues(h, p, new_id, 1), p, new_id, 1),
            p, new_id, 1),
        p, new_id, 1)

\* TempId.__new__ and __init__ for item_type, with TempId._next_id = next
\* the counter of a type starting at 1
NextIdOf_from_one(next, item_type) ==
    IF item_type \in DOMAIN next THEN next[item_type] ELSE 1
NextIdOf(next, item_type) ==
    IF item_type \in DOMAIN next THEN next[item_type] ELSE 0 - 1
NewTempId(next, item_type) == TempIdOf(item_type, NextIdOf(next, item_type))
\* __new__ without the decrement of line 22
AfterNew_no_decrement(next, item_type) ==
    [t \in DOMAIN next \cup {item_type} |->
        IF t = item_type THEN NextIdOf(next, item_type) ELSE next[t]]
AfterNew(next, item_type) ==
    [t \in DOMAIN next \cup {item_type} |->
        IF t = item_type THEN NextIdOf(next, item_type) - 1 ELSE next[t]]


(***************************************************************************)
(* The catalog of DatabaseMappingBase: the tables it maps and the subquery *)
(* properties it caches, each with what it is composed of.                 *)
(***************************************************************************)
table_to_class ==
    [commit |-> "Commit",
     object_class |-> "ObjectClass",
     object |-> "Object",
     relationship_class |-> "RelationshipClass",
     relationship |-> "Relationship",
     parameter_definition |-> "ParameterDefinition",
     parameter_value |-> "ParameterValue",
     parameter_tag |-> "ParameterTag",
     parameter_definition_tag |-> "ParameterDefinitionTag",
     parameter_value_list |-> "ParameterValueList"]

TableNames == DOMAIN table_to_class

\* the subquery properties that select everything from one table
BaseTable ==
    [object_class_sq |-> "object_class",
     object_sq |-> "object",
     relationship_class_sq |-> "relationship_class",
     relationship_sq |-> "relationship",
     parameter_definition_sq |-> "parameter_definition",
     parameter_value_sq |-> "parameter_value",
     parameter_tag_sq |-> "parameter_tag",
     parameter_definition_tag_sq |-> "parameter_definition_tag",
     parameter_value_list_sq |-> "parameter_value_list"]

BaseViews == DOMAIN BaseTable

\* the special subqueries, each with the subquery properties it reads
Parts ==
    [ext_relationship_class_sq |-> {"relationship_class_sq", "object_class_sq"},
     wide_relationship_class_sq |-> {"ext_relationship_class_sq"},
     ext_relationship_sq |-> {"relationship_sq", "object_sq"},
     wide_relationship_sq |-> {"ext_relationship_sq"},
     object_parameter_definition_sq |->
        {"parameter_definition_sq", "object_class_sq",
         "wide_parameter_value_list_sq", "wide_parameter_definition_tag_sq"},
     relationship_parameter_definition_sq |->
        {"parameter_definition_sq", "wide_relationship_class_sq",
         "wide_parameter_value_list_sq", "wide_parameter_definition_tag_sq"},
     object_parameter_value_sq |->
        {"parameter_value_sq", "object_class_sq", "object_sq",
         "parameter_definition_sq"},
     relationship_parameter_value_sq |->
        {"parameter_value_sq", "wide_relationship_class_sq",
         "wide_relationship_sq", "parameter_definition_sq"},
     ext_parameter_definition_tag_sq |->
        {"parameter_definition_tag_sq", "parameter_tag_sq"},
     wide_parameter_definition_tag_sq |-> {"ext_parameter_definition_tag_sq"},
     ext_parameter_tag_definition_sq |->
        {"parameter_definition_sq", "parameter_definition_tag_sq"},
     wide_parameter_tag_definition_sq |-> {"ext_parameter_tag_definition_sq"},
     wide_parameter_value_list_sq |-> {"parameter_value_list_sq"}]

DerivedViews == DOMAIN Parts
ViewNames == BaseViews \cup DerivedViews

\* the value of a subquery attribute that holds no Alias
NoAlias == [view |-> "None", leaves |-> {}]

\* Table.name: an original table keeps its name; a diff table is named
\* diff_prefix + tablename, diff_prefix being "diff_" + username + timestamp
\* (kept as the pair of the two) + "_"
OrigName(tablename) == <<"", 0 - 1, tablename>>
DiffName(prefix, tablename) == <<prefix[1], prefix[2], tablename>>
\* a table that is not temporary is found by its name from any connection
DiffKeyByName(conn, prefix, tablename) ==
    [conn |-> 0, name |-> DiffName(prefix, tablename)]

\* a temporary table lives in the connection that created it
DiffKey(conn, prefix, tablename) ==
    [conn |-> conn, name |-> DiffName(prefix, tablename)]
NoDiff == [conn |-> 0, name |-> OrigName("")]

(***************************************************************************)
(* A cached Alias is kept as the selects of single tables it is built      *)
(* from.  Each of them (a leaf) names the original table, the identifiers  *)
(* its NOT IN filter was built with, and the diff table it is united with. *)
(***************************************************************************)
Leaf(orig, notin, difftable) == [orig |-> orig, notin |-> notin, diff |-> difftable]

\* DatabaseMappingBase.subquery: SELECT * FROM table
subquery(tablename) == Leaf(tablename, {}, NoDiff)

\* the names forward_sweep collects from an Alias: every Table it reaches
TablesOf(alias) ==
    {OrigName(l.orig) : l \in alias.leaves}
        \cup {l.diff.name : l \in {x \in alias.leaves : x.diff # NoDiff}}

RECURSIVE Closure(_)
\* the subquery properties that reading view runs through, view included
Closure(view) ==
    IF view \in BaseViews THEN {view}
    ELSE {view} \cup UNION {Closure(w) : w \in Parts[view]}


(***************************************************************************)
(* Rows.  A row of a table has an identifier, a dimension (relationship    *)
(* rows, one per member), up to two references and a name.  A staged       *)
(* record is a TempIdDict; the rows it stands for are read off its fields. *)
(***************************************************************************)
Row(id, dim, ref, ref2, name) ==
    [id |-> id, dim |-> dim, ref |-> ref, ref2 |-> ref2, name |-> name]

F(name) == Scalar(Str(name))
Field(d, name) == IF HasKey(d, F(name)) THEN GetItem(d, F(name)) ELSE Scalar(None)

RefField(tablename) ==
    CASE tablename = "object" -> "class_id"
      [] tablename = "parameter_value" -> "object_id"
      [] OTHER -> "-"
Ref2Field(tablename) ==
    CASE tablename = "parameter_value" -> "relationship_id"
      [] OTHER -> "-"

RecordRows(tablename, d) ==
    IF tablename = "relationship"
    THEN [i \in 1..Len(Field(d, "object_id_list").el) |->
            Row(AtomOf(Field(d, "id")), i - 1, Field(d, "object_id_list").el[i],
                None, AtomOf(Field(d, "name")))]
    ELSE <<Row(AtomOf(Field(d, "id")), 0,
               AtomOf(Field(d, RefField(tablename))),
               AtomOf(Field(d, Ref2Field(tablename))),
               AtomOf(Field(d, "name")))>>

RowBefore(r1, r2) == r1.id.v < r2.id.v \/ (r1.id.v = r2.id.v /\ r1.dim < r2.dim)

RECURSIVE SortRows(_)
\* the rows of a table in the order of their primary key
SortRows(rows) ==
    IF rows = {} THEN <<>>
    ELSE LET first == CHOOSE r \in rows : \A q \in rows \ {r} : RowBefore(r, q)
         IN  <<first>> \o SortRows(rows \ {first})

RECURSIVE Flatten(_)
Flatten(seqs) == IF seqs = <<>> THEN <<>> ELSE Head(seqs) \o Flatten(Tail(seqs))

\* the rows of a diff table: those of the records staged in it, in the
\* order they were staged
DiffRows(tablename, records, d) ==
    Flatten([i \in 1..Len(records) |-> RecordRows(tablename, d[records[i]])])

\* id NOT IN (ids), as the database compares them
NotIn(id, ids) == \A x \in ids : ~PyEq(x, id)

\* what a select of one table returns:
\*   SELECT * FROM orig WHERE id NOT IN notin  UNION ALL  SELECT * FROM diff
LeafRows(leaf, st, df, d) ==
    LET keep(r) == NotIn(r.id, leaf.notin)
    IN  SelectSeq(SortRows(st[leaf.orig]), keep)
            \o (IF leaf.diff \in DOMAIN df
                THEN DiffRows(leaf.orig, df[leaf.diff], d) ELSE <<>>)

(***************************************************************************)
(* DiffDatabaseMappingBase                                                 *)
(***************************************************************************)
\* _subquery without the filter on the dirty identifiers
_subquery_ignore_dirty(dirty, conn, prefix, tablename) ==
    Leaf(tablename, {}, DiffKey(conn, prefix, tablename))

\* _subquery that selects from the original table only, as subquery does
_subquery_original_only(dirty, conn, prefix, tablename) ==
    Leaf(tablename, {}, NoDiff)

\* _subquery: the rows of the original table that are not dirty, then the
\* rows of the diff table
_subquery(dirty, conn, prefix, tablename) ==
    Leaf(tablename, dirty[tablename], DiffKey(conn, prefix, tablename))

\* _clear_subqueries that looks no further than the property of the table
\* _clear_subqueries that sets every subquery attribute to None
_clear_subqueries_all(attrs, tablenames) ==
    [view \in DOMAIN attrs |-> IF tablenames # {} THEN NoAlias ELSE attrs[view]]

_clear_subqueries_base_only(attrs, tablenames) ==
    [view \in DOMAIN attrs |->
        IF /\ attrs[view] # NoAlias
           /\ view \in BaseViews
           /\ BaseTable[view] \in tablenames
        THEN NoAlias ELSE attrs[view]]

\* _clear_subqueries: the subquery attributes of one mapping, those that
\* involve one of the tables set to None
_clear_subqueries(attrs, tablenames) ==
    [view \in DOMAIN attrs |->
        IF /\ attrs[view] # NoAlias
           /\ \E t \in tablenames : OrigName(t) \in TablesOf(attrs[view])
        THEN NoAlias ELSE attrs[view]]

\* _mark_as_dirty that clears the subqueries and forgets the identifiers
_mark_as_dirty_clear_only(m, tablename, ids) ==
    [m EXCEPT !.attrs = _clear_subqueries(m.attrs, {tablename})]

\* _mark_as_dirty, on the diff dictionaries and subquery attributes of a
\* mapping
_mark_as_dirty(m, tablename, ids) ==
    [m EXCEPT !.dirty[tablename] = @ \cup ids,
              !.attrs = _clear_subqueries(m.attrs, {tablename})]

\* _init_diff_dicts: each of the four dictionaries
EmptyDiffDict == [x \in TableNames |-> {}]

(***************************************************************************)
(* DatabaseMappingBase: the subquery properties.  A property returns the   *)
(* Alias its attribute holds and builds it first when the attribute is     *)
(* None; a special subquery is built from the properties of its parts.     *)
(***************************************************************************)
RECURSIVE AliasOf(_, _)
AliasOf(attrs, view) ==
    IF attrs[view] # NoAlias THEN attrs[view]
    ELSE IF view \in BaseViews
         THEN [view |-> view, leaves |-> {subquery(BaseTable[view])}]
         ELSE [view |-> view,
               leaves |-> UNION {AliasOf(attrs, w).leaves : w \in Parts[view]}]

RECURSIVE Built(_, _)
\* the attributes that reading the property assigns
Built(attrs, view) ==
    IF attrs[view] # NoAlias THEN {}
    ELSE IF view \in BaseViews THEN {view}
         ELSE {view} \cup UNION {Built(attrs, w) : w \in Parts[view]}

\* the attributes after the property has been read
AfterGet(attrs, view) ==
    [w \in DOMAIN attrs |->
        IF w \in Built(attrs, view) THEN AliasOf(attrs, w) ELSE attrs[w]]


(***************************************************************************)
(* Bounds of the model.                                                    *)
(***************************************************************************)
\* placeholders allocated in one run, all item types and sessions together
MaxTempIds == 2
\* commits that succeed in one run
MaxCommits == 1
\* calls made to the mappings in one run, all sessions together
MaxCalls == 3

Sessions == {1, 2}
\* the tables whose rows the model follows
RowTables == {"object_class", "object", "relationship", "parameter_value"}
Names == {"nemo", "pluto"}
\* the subquery properties the sessions of the model read
ReadViews == {"object_sq", "parameter_value_sq", "wide_relationship_sq"}

VARIABLES
    next_id,            \* TempId._next_id, an attribute of the class
    dicts,              \* the TempIdDicts: container -> entries
    binds,              \* TempId -> its four bind lists
    resolved,           \* TempId -> the identifier resolve was called with
    err,                \* the exception the last TempIdDict call raised
    diff_prefix,        \* per mapping: (username, time of construction)
    store,              \* the tables of the database: tablename -> rows
    diff,               \* the diff tables: (connection, name) -> records
    added_item_id, updated_item_id, removed_item_id, dirty_item_id,
    attrs,              \* per mapping: subquery attribute -> Alias or None
    orm,                \* per mapping: the tables that have a mapped class
    result,             \* per mapping: how its last call ended
    errors,             \* per mapping: the (item, reason) pairs its last
                        \* call returned
    batch,              \* per mapping: the arguments of its last call, when
                        \* it was a bulk call
    written,            \* per mapping: the rows its last commit handed to
                        \* the database, in order
    calls               \* the calls made so far

heapvars == <<next_id, dicts, binds, resolved, err>>
dbvars == <<diff_prefix, store, diff, added_item_id, updated_item_id,
            removed_item_id, dirty_item_id, attrs, orm, result, errors,
            batch, written>>
vars == <<heapvars, dbvars, calls>>

\* one more call
Call == calls < MaxCalls /\ calls' = calls + 1

Heap == [d |-> dicts, b |-> binds, err |-> ""]

\* the diff table of a mapping for a table; the mapping's own connection
\* is the one that created it
DiffTable(s, tablename) == DiffKey(s, diff_prefix[s], tablename)

\* the current rows of a table as _subquery selects them
CurrentRows(s, tablename) ==
    LeafRows(_subquery(dirty_item_id[s], s, diff_prefix[s], tablename),
             store, diff, dicts)

\* what querying a subquery property of a mapping returns for a base view
ViewRows(s, view) ==
    LET leaf == CHOOSE l \in AliasOf(attrs[s], view).leaves :
                    l.orig = BaseTable[view]
    IN  LeafRows(leaf, store, diff, dicts)

Range(seq) == {seq[i] : i \in 1..Len(seq)}
IdsOf(rows) == {r.id : r \in Range(rows)}

RECURSIVE OrderBy(_)
\* ORDER BY r.id, r.dimension
OrderBy(rows) ==
    IF rows = {} THEN <<>>
    ELSE LET first == CHOOSE r \in rows : \A q \in rows : ~RowBefore(q, r)
         IN  <<first>> \o OrderBy(rows \ {first})

\* ext_relationship_sq: the rows of relationship_sq joined with those of
\* object_sq on r.object_id = o.id, one row per member
ext_relationship_sq(s) ==
    OrderBy({[id |-> p[1].id, dim |-> p[1].dim, name |-> p[1].name,
              object_id |-> p[2].id, object_name |-> p[2].name] :
                p \in {q \in Range(ViewRows(s, "relationship_sq"))
                                \X Range(ViewRows(s, "object_sq")) :
                            PyEq(q[1].ref, q[2].id)}})

\* wide_relationship_sq: the rows of ext_relationship_sq grouped by id, the
\* object ids and names of a group concatenated in the order of the rows
wide_relationship_sq(s) ==
    LET ext == ext_relationship_sq(s)
        group(v) == LET same(e) == e.id.v = v IN SelectSeq(ext, same)
    IN  {[id |-> group(v)[1].id,
          name |-> group(v)[1].name,
          object_id_list |-> [k \in 1..Len(group(v)) |-> group(v)[k].object_id],
          object_name_list |-> [k \in 1..Len(group(v)) |-> group(v)[k].object_name]] :
            v \in {ext[i].id.v : i \in 1..Len(ext)}}

\* _init_diff_dicts that leaves dirty_item_id as it is
_init_diff_dicts_keep_dirty(m) ==
    [added |-> EmptyDiffDict,
     updated |-> EmptyDiffDict,
     removed |-> EmptyDiffDict,
     dirty |-> m.dirty,
     attrs |-> _clear_subqueries(m.attrs, TableNames)]

\* _init_diff_dicts, on the diff dictionaries and subquery attributes of a
\* mapping
_init_diff_dicts(m) ==
    [added |-> EmptyDiffDict,
     updated |-> EmptyDiffDict,
     removed |-> EmptyDiffDict,
     dirty |-> EmptyDiffDict,
     attrs |-> _clear_subqueries(m.attrs, TableNames)]

\* the tables whose Diff classes _reset_diff_mapping deletes from
ResetTables ==
    {"relationship_class", "relationship", "parameter_definition",
     "parameter_value", "parameter_tag", "parameter_definition_tag",
     "parameter_value_list", "object", "object_class"}

\* _reset_diff_mapping: delete all records from the diff tables
_reset_diff_mapping(df, conn, prefix) ==
    [key \in DOMAIN df |->
        IF key \in {DiffKey(conn, prefix, t) : t \in ResetTables}
        THEN <<>> ELSE df[key]]

(***************************************************************************)
(* The staging calls (specification 4.2, 4.3).                             *)
(***************************************************************************)
\* the table a reference column of a table points to
RefTable(tablename, column) ==
    CASE tablename = "object" /\ column = "ref" -> "object_class"
      [] tablename = "relationship" /\ column = "ref" -> "object"
      [] tablename = "parameter_value" /\ column = "ref" -> "object"
      [] tablename = "parameter_value" /\ column = "ref2" -> "relationship"
      [] OTHER -> "-"

Refers(tablename, r, target, id) ==
    \/ RefTable(tablename, "ref") = target /\ PyEq(r.ref, id)
    \/ RefTable(tablename, "ref2") = target /\ PyEq(r.ref2, id)

\* the member identifiers of a relationship, in the order of the dimensions
RECURSIVE MembersFrom(_, _, _)
MembersFrom(rows, id, i) ==
    IF i > Len(rows) THEN <<>>
    ELSE (IF PyEq(rows[i].id, id) THEN <<rows[i].ref>> ELSE <<>>)
            \o MembersFrom(rows, id, i + 1)
Members(rows, id) == MembersFrom(rows, id, 1)

\* an item as the staging calls take it
Item(ref, ref2, name, mem) == [ref |-> ref, ref2 |-> ref2, name |-> name, mem |-> mem]

Items(s, tablename) ==
    LET ids == IdsOf(CurrentRows(s, "object"))
    IN  CASE tablename = "object_class" ->
                {Item(None, None, Str(n), <<>>) : n \in Names}
          [] tablename = "object" ->
                {Item(c, None, Str(n), <<>>) :
                    c \in IdsOf(CurrentRows(s, "object_class")), n \in Names}
          [] tablename = "relationship" ->
                {Item(None, None, None, <<a>>) : a \in ids}
                    \cup {Item(None, None, None, <<a, b>>) : a \in ids, b \in ids}
          [] tablename = "parameter_value" ->
                {Item(o, None, None, <<>>) : o \in ids}
                    \cup {Item(None, r, None, <<>>) :
                            r \in IdsOf(CurrentRows(s, "relationship"))}

\* the keyword arguments the record of an item is constructed with
Kwargs(tablename, item) ==
    CASE tablename = "object_class" -> <<<<F("name"), Scalar(item.name)>>>>
      [] tablename = "object" ->
            <<<<F("class_id"), Scalar(item.ref)>>, <<F("name"), Scalar(item.name)>>>>
      [] tablename = "relationship" ->
            <<<<F("object_id_list"), Tuple(item.mem)>>,
              <<F("name"), Scalar(item.name)>>>>
      [] tablename = "parameter_value" ->
            <<<<F("object_id"), Scalar(item.ref)>>,
              <<F("relationship_id"), Scalar(item.ref2)>>>>

\* uniqueness of the natural key among the current rows of the table
SameKey(tablename, rows, r, item) ==
    CASE tablename = "object_class" -> r.name = item.name
      [] tablename = "object" -> PyEq(r.ref, item.ref) /\ r.name = item.name
      [] tablename = "relationship" ->
            LET m == Members(rows, r.id)
            IN  Len(m) = Len(item.mem)
                    /\ \A i \in 1..Len(m) : PyEq(m[i], item.mem[i])
      [] tablename = "parameter_value" ->
            PyEq(r.ref, item.ref) /\ PyEq(r.ref2, item.ref2)

KeyTaken(s, tablename, item, except) ==
    LET rows == CurrentRows(s, tablename)
    IN  \E r \in Range(rows) : ~PyEq(r.id, except) /\ SameKey(tablename, rows, r, item)

RECURSIVE BindAll(_, _, _, _)
BindAll(h, item, kwargs, i) ==
    IF i > Len(kwargs) THEN h
    ELSE BindAll(_bind(h, item, kwargs[i][1], kwargs[i][2]), item, kwargs, i + 1)

\* TempIdDict.__init__(**kwargs), for a new container
Construct(h, item, kwargs) ==
    BindAll([h EXCEPT !.d = (item :> {[k |-> kwargs[i][1], v |-> kwargs[i][2]] :
                                        i \in 1..Len(kwargs)}) @@ @],
            item, kwargs, 1)

NewContainer(d) == Cardinality(DOMAIN d) + 1
Allocated == Cardinality(DOMAIN binds)

\* the record of the diff table that holds the identifier, 0 when none
Staged(s, tablename, id) ==
    LET hits == {c \in Range(diff[DiffTable(s, tablename)]) :
                    PyEq(AtomOf(Field(dicts[c], "id")), id)}
    IN  IF hits = {} THEN 0 ELSE CHOOSE c \in hits : TRUE

\* no bulk call
NoBatch == [table |-> "-", items |-> <<>>, strict |-> FALSE]

SetResult(s, r) ==
    /\ result' = [result EXCEPT ![s] = r]
    /\ errors' = [errors EXCEPT ![s] = <<>>]
    /\ batch' = [batch EXCEPT ![s] = NoBatch]
    /\ UNCHANGED orm

\* the diff dictionaries and the subquery attributes of a mapping
Mapping(s) ==
    [added |-> added_item_id[s], updated |-> updated_item_id[s],
     removed |-> removed_item_id[s], dirty |-> dirty_item_id[s],
     attrs |-> attrs[s]]

SetMapping(s, m) ==
    /\ added_item_id' = [added_item_id EXCEPT ![s] = m.added]
    /\ updated_item_id' = [updated_item_id EXCEPT ![s] = m.updated]
    /\ removed_item_id' = [removed_item_id EXCEPT ![s] = m.removed]
    /\ dirty_item_id' = [dirty_item_id EXCEPT ![s] = m.dirty]
    /\ attrs' = [attrs EXCEPT ![s] = m.attrs]

Rejected(s) ==
    /\ SetResult(s, "integrity_error")
    /\ UNCHANGED <<heapvars, diff_prefix, store, diff, added_item_id,
                   updated_item_id, removed_item_id, dirty_item_id, attrs, written>>

\* stage_add: allocate a placeholder, keep the record, add to `added`
StageAdd(s, tablename, item) ==
    /\ Call
    /\ Allocated < MaxTempIds
    /\ IF KeyTaken(s, tablename, item, None)
       THEN Rejected(s)
       ELSE LET p == NewTempId(next_id, tablename)
                c == NewContainer(dicts)
                h0 == [Heap EXCEPT !.b = (p :> NoBinds) @@ @]
                h == SetItem(Construct(h0, c, Kwargs(tablename, item)),
                             c, F("id"), Scalar(p))
            IN  /\ next_id' = AfterNew(next_id, tablename)
                /\ dicts' = h.d
                /\ binds' = h.b
                /\ diff' = [diff EXCEPT ![DiffTable(s, tablename)] = Append(@, c)]
                /\ SetMapping(s, _mark_as_dirty(
                        [Mapping(s) EXCEPT !.added[tablename] = @ \cup {p}],
                        tablename, {p}))
                /\ SetResult(s, "ok")
                /\ UNCHANGED <<resolved, err, diff_prefix, store, written>>

\* the row of the current view that holds the identifier
CurrentRow(s, tablename, id) ==
    CHOOSE r \in Range(CurrentRows(s, tablename)) : PyEq(r.id, id)

\* stage_update: add to `updated`, keep the merged record
StageUpdate(s, tablename, id, name) ==
    /\ Call
    /\ tablename \in {"object_class", "object"}
    /\ id \in IdsOf(CurrentRows(s, tablename))
    /\ LET old == CurrentRow(s, tablename, id)
           item == Item(old.ref, old.ref2, Str(name), <<>>)
           c == Staged(s, tablename, id)
           n == NewContainer(dicts)
           h == IF c # 0
                THEN SetItem(Heap, c, F("name"), Scalar(Str(name)))
                ELSE SetItem(Construct(Heap, n, Kwargs(tablename, item)),
                             n, F("id"), Scalar(id))
       IN  IF KeyTaken(s, tablename, item, id)
           THEN Rejected(s)
           ELSE /\ dicts' = h.d
                /\ binds' = h.b
                /\ diff' = IF c # 0 THEN diff
                           ELSE [diff EXCEPT ![DiffTable(s, tablename)] = Append(@, n)]
                /\ SetMapping(s, _mark_as_dirty(
                        [Mapping(s) EXCEPT !.updated[tablename] = @ \cup {id}],
                        tablename, {id}))
                /\ SetResult(s, "ok")
                /\ UNCHANGED <<next_id, resolved, err, diff_prefix, store, written>>

\* the rows that reference one of the items, item by item to a fixed point
CascadeStep(s, items) ==
    items \cup
        UNION {{<<t, r.id>> : r \in
                    {q \in Range(CurrentRows(s, t)) :
                        \E it \in items : Refers(t, q, it[1], it[2])}} :
               t \in RowTables}

\* a cascade that stops at the rows that reference the removed items
Cascade_direct(s, items) == CascadeStep(s, items)

RECURSIVE Cascade(_, _)
Cascade(s, items) ==
    IF CascadeStep(s, items) = items THEN items
    ELSE Cascade(s, CascadeStep(s, items))

RECURSIVE MarkRemoved(_, _)
\* `removed` and `dirty` of a mapping after the items are removed
MarkRemoved(m, items) ==
    IF items = {} THEN m
    ELSE LET it == CHOOSE x \in items : TRUE
         IN  MarkRemoved(
                _mark_as_dirty([m EXCEPT !.removed[it[1]] = @ \cup {it[2]}],
                               it[1], {it[2]}),
                items \ {it})

\* stage_remove that deletes the row from its table at once
StageRemove_at_once(s, tablename, id) ==
    /\ Call
    /\ id \in IdsOf(CurrentRows(s, tablename))
    /\ store' = [store EXCEPT ![tablename] = {r \in @ : ~PyEq(r.id, id)}]
    /\ SetMapping(s, _mark_as_dirty(
            [Mapping(s) EXCEPT !.removed[tablename] = @ \cup {id}], tablename, {id}))
    /\ SetResult(s, "ok")
    /\ UNCHANGED <<heapvars, diff_prefix, diff, written>>

\* stage_remove: add to `removed`, the same for every row that references
\* the item; the records staged for them are discarded
\* stage_remove that leaves the staged records of the removed items in the
\* diff tables
StageRemove_keep_staged(s, tablename, id) ==
    /\ Call
    /\ id \in IdsOf(CurrentRows(s, tablename))
    /\ SetMapping(s, MarkRemoved(Mapping(s), Cascade(s, {<<tablename, id>>})))
    /\ SetResult(s, "ok")
    /\ UNCHANGED <<heapvars, diff_prefix, store, diff, written>>

StageRemove(s, tablename, id) ==
    /\ Call
    /\ id \in IdsOf(CurrentRows(s, tablename))
    /\ LET items == Cascade(s, {<<tablename, id>>})
           gone(t, c) == \E it \in items :
                            it[1] = t /\ PyEq(AtomOf(Field(dicts[c], "id")), it[2])
       IN  /\ diff' = [key \in DOMAIN diff |->
                        IF \E t \in RowTables : key = DiffTable(s, t)
                        THEN LET t == key.name[3]
                                 keep(c) == ~gone(t, c)
                             IN  SelectSeq(diff[key], keep)
                        ELSE diff[key]]
           /\ SetMapping(s, MarkRemoved(Mapping(s), items))
    /\ SetResult(s, "ok")
    /\ UNCHANGED <<heapvars, diff_prefix, store, written>>

\* reading a subquery property
ReadView(s, view) ==
    /\ Call
    /\ attrs' = [attrs EXCEPT ![s] = AfterGet(@, view)]
    /\ SetResult(s, "read")
    /\ UNCHANGED <<heapvars, diff_prefix, store, diff, added_item_id,
                   updated_item_id, removed_item_id, dirty_item_id, written>>

(***************************************************************************)
(* commit_session (specification 4.4).                                     *)
(***************************************************************************)
\* the order the tables are persisted in: a table after those it refers to
PersistOrder == <<"object_class", "object", "relationship", "parameter_value">>

\* the staged records of a mapping, each with its table, in that order
Queue(s) ==
    Flatten([i \in 1..Len(PersistOrder) |->
        [j \in 1..Len(diff[DiffTable(s, PersistOrder[i])]) |->
            <<PersistOrder[i], diff[DiffTable(s, PersistOrder[i])][j]>>]])

Max(S) == CHOOSE x \in S : \A y \in S : y <= x

\* the identifier the database assigns to the next row of the table
NewId(st, tablename) == IntOf(Max({0} \cup {r.id.v : r \in st[tablename]}) + 1)

\* steps 1 and 2 for one record: the row gets its identifier, the
\* placeholder is resolved, the row is written
PersistOne(cs, tablename, c) ==
    LET id == AtomOf(Field(cs.h.d[c], "id"))
        real == NewId(cs.store, tablename)
        h1 == IF IsTempId(id) THEN resolve(cs.h, id, real) ELSE cs.h
        rows == RecordRows(tablename, h1.d[c])
        old == {r \in cs.store[tablename] : \E q \in Range(rows) : PyEq(r.id, q.id)}
    IN  [h |-> h1,
         store |-> [cs.store EXCEPT ![tablename] = (@ \ old) \cup Range(rows)],
         resolved |-> IF IsTempId(id) THEN (id :> real) @@ cs.resolved
                      ELSE cs.resolved,
         written |-> cs.written \o rows]

RECURSIVE Persist(_, _, _, _)
\* the first k records of the queue persisted
Persist(cs, queue, i, k) ==
    IF i > k THEN cs
    ELSE Persist(PersistOne(cs, queue[i][1], queue[i][2]), queue, i + 1, k)

\* step 3: the removed identifiers deleted from the tables
ApplyRemoved(st, removed) ==
    [t \in DOMAIN st |-> {r \in st[t] : NotIn(r.id, removed[t])}]

\* step 4: the commit entry
AddCommit(st) ==
    [st EXCEPT !["commit"] = @ \cup {Row(NewId(st, "commit"), 0, None, None, Str("msg"))}]

NothingStaged(s) ==
    \A t \in TableNames :
        added_item_id[s][t] \cup updated_item_id[s][t] \cup removed_item_id[s][t] = {}

CommitStart(s) == [h |-> Heap, store |-> store, resolved |-> resolved, written |-> <<>>]

\* a rejection that gives the staged changes up
CommitRejected_clears(s, message) ==
    /\ Call
    /\ message = "" \/ NothingStaged(s)
    /\ SetResult(s, IF message = "" THEN "empty_message" ELSE "nothing_to_commit")
    /\ diff' = _reset_diff_mapping(diff, s, diff_prefix[s])
    /\ SetMapping(s, _init_diff_dicts(Mapping(s)))
    /\ UNCHANGED <<heapvars, diff_prefix, store, written>>

\* the protocol errors: nothing is touched
CommitRejected(s, message) ==
    /\ Call
    /\ message = "" \/ NothingStaged(s)
    /\ SetResult(s, IF message = "" THEN "empty_message" ELSE "nothing_to_commit")
    /\ UNCHANGED <<heapvars, diff_prefix, store, diff, added_item_id,
                   updated_item_id, removed_item_id, dirty_item_id, attrs, written>>

\* a commit that does not look at what is staged
CommitSucceeds_unguarded(s) ==
    /\ Call
    /\ Cardinality(store["commit"]) < MaxCommits
    /\ LET cs == Persist(CommitStart(s), Queue(s), 1, Len(Queue(s)))
       IN  /\ cs.h.err = ""
           /\ dicts' = cs.h.d
           /\ binds' = cs.h.b
           /\ resolved' = cs.resolved
           /\ store' = AddCommit(ApplyRemoved(cs.store, removed_item_id[s]))
           /\ written' = [written EXCEPT ![s] = cs.written]
    /\ diff' = _reset_diff_mapping(diff, s, diff_prefix[s])
    /\ SetMapping(s, _init_diff_dicts(Mapping(s)))
    /\ SetResult(s, "committed")
    /\ UNCHANGED <<next_id, err, diff_prefix>>

\* the commit goes through: steps 1 to 5
CommitSucceeds(s) ==
    /\ Call
    /\ ~NothingStaged(s)
    /\ Cardinality(store["commit"]) < MaxCommits
    /\ LET cs == Persist(CommitStart(s), Queue(s), 1, Len(Queue(s)))
       IN  /\ cs.h.err = ""
           /\ dicts' = cs.h.d
           /\ binds' = cs.h.b
           /\ resolved' = cs.resolved
           /\ store' = AddCommit(ApplyRemoved(cs.store, removed_item_id[s]))
           /\ written' = [written EXCEPT ![s] = cs.written]
    /\ diff' = _reset_diff_mapping(diff, s, diff_prefix[s])
    /\ SetMapping(s, _init_diff_dicts(Mapping(s)))
    /\ SetResult(s, "committed")
    /\ UNCHANGED <<next_id, err, diff_prefix>>

\* the database rejects a write after k records: the transaction is rolled
\* back, the diff dictionaries and the diff tables are left alone
CommitFails(s, k) ==
    /\ Call
    /\ ~NothingStaged(s)
    /\ k \in 0..Len(Queue(s))
    /\ LET cs == Persist(CommitStart(s), Queue(s), 1, k)
       IN  /\ dicts' = cs.h.d
           /\ binds' = cs.h.b
           /\ resolved' = cs.resolved
           /\ written' = [written EXCEPT ![s] = cs.written]
    /\ SetResult(s, "persistence_error")
    /\ UNCHANGED <<next_id, err, diff_prefix, store, diff, added_item_id,
                   updated_item_id, removed_item_id, dirty_item_id, attrs>>

\* the session is given up without a commit: its changes are discarded
Discard(s) ==
    /\ Call
    /\ ~NothingStaged(s)
    /\ diff' = _reset_diff_mapping(diff, s, diff_prefix[s])
    /\ SetMapping(s, _init_diff_dicts(Mapping(s)))
    /\ SetResult(s, "discarded")
    /\ UNCHANGED <<heapvars, diff_prefix, store, written>>

(***************************************************************************)
(* Two mappings of one database, opened by the same user.                  *)
(***************************************************************************)
InitialStore ==
    [t \in TableNames |->
        CASE t = "object_class" -> {Row(IntOf(1), 0, None, None, Str("nemo"))}
          [] t = "object" -> {Row(IntOf(1), 0, IntOf(1), None, Str("nemo"))}
          [] t = "relationship" -> {Row(IntOf(1), 0, IntOf(1), None, None)}
          [] t = "parameter_value" ->
                {Row(IntOf(1), 0, IntOf(1), None, None),
                 Row(IntOf(2), 0, None, IntOf(1), None)}
          [] OTHER -> {}]

\* the seconds at which the mappings may have been constructed
Seconds == {0, 1}

Init ==
    /\ next_id = <<>>
    /\ dicts = <<>>
    /\ binds = <<>>
    /\ resolved = <<>>
    /\ err = ""
    /\ diff_prefix \in {pf \in [Sessions -> {<<"UnitTest", sec>> : sec \in Seconds}] :
                            pf[1][2] = 0}
    /\ store = InitialStore
    /\ diff = [key \in {DiffKey(s, diff_prefix[s], t) : s \in Sessions, t \in TableNames}
                |-> <<>>]
    /\ added_item_id = [s \in Sessions |-> EmptyDiffDict]
    /\ updated_item_id = [s \in Sessions |-> EmptyDiffDict]
    /\ removed_item_id = [s \in Sessions |-> EmptyDiffDict]
    /\ dirty_item_id = [s \in Sessions |-> EmptyDiffDict]
    /\ attrs = [s \in Sessions |-> [view \in ViewNames |-> NoAlias]]
    /\ orm = [s \in Sessions |-> TableNames]
    /\ result = [s \in Sessions |-> "new"]
    /\ errors = [s \in Sessions |-> <<>>]
    /\ batch = [s \in Sessions |-> NoBatch]
    /\ written = [s \in Sessions |-> <<>>]
    /\ calls = 0

Next ==
    \/ \E s \in Sessions, t \in RowTables : \E item \in Items(s, t) : StageAdd(s, t, item)
    \/ \E s \in Sessions, t \in RowTables : \E id \in IdsOf(CurrentRows(s, t)) :
            \E n \in Names : StageUpdate(s, t, id, n)
    \/ \E s \in Sessions, t \in RowTables : \E id \in IdsOf(CurrentRows(s, t)) :
            StageRemove(s, t, id)
    \/ \E s \in Sessions, view \in ReadViews : ReadView(s, view)
    \/ \E s \in Sessions, message \in {"", "msg"} : CommitRejected(s, message)
    \/ \E s \in Sessions : CommitSucceeds(s)
    \/ \E s \in Sessions : \E k \in 0..Len(Queue(s)) : CommitFails(s, k)
    \/ \E s \in Sessions : Discard(s)

Spec == Init /\ [][Next]_vars
(***************************************************************************)
(* TempIdDict on its own: two dictionaries and the calls a client can make *)
(* on them with the placeholders it has allocated.                         *)
(***************************************************************************)
\* calls made on the dictionaries in one run
MaxDictCalls == 4

Containers == {1, 2}
ItemTypes == {"object", "relationship"}
\* the identifier the placeholders are resolved to
RealId == IntOf(5)

\* the placeholders that are allocated and not resolved
Outstanding == DOMAIN binds \ DOMAIN resolved

\* the keys and the values of the calls
KeyObjects ==
    {F("a")} \cup {Scalar(q) : q \in Outstanding}
        \cup {Tuple(<<q, IntOf(7)>>) : q \in Outstanding}
ValueObjects ==
    {Scalar(IntOf(7))} \cup {Scalar(q) : q \in Outstanding}
        \cup {Tuple(<<q, IntOf(7)>>) : q \in Outstanding}

DictCall == calls < MaxDictCalls /\ calls' = calls + 1

\* the heap after a call
AfterCall(h) ==
    /\ dicts' = h.d
    /\ binds' = h.b
    /\ err' = h.err
    /\ DictCall
    /\ UNCHANGED <<next_id, resolved, dbvars>>

\* TempId(item_type)
TNew(item_type) ==
    /\ Allocated < MaxTempIds
    /\ DictCall
    /\ next_id' = AfterNew(next_id, item_type)
    /\ binds' = (NewTempId(next_id, item_type) :> NoBinds) @@ binds
    /\ err' = ""
    /\ UNCHANGED <<dicts, resolved, dbvars>>

\* d[key] = value
TSetItem(c, key, value) == AfterCall(SetItem(Heap, c, key, value))
\* del d[key]
TDelItem(c, key) == AfterCall(DelItem(Heap, c, key))
\* d.setdefault(key, default)
TSetDefault(c, key, default) == AfterCall(SetDefault(Heap, c, key, default))
\* d.pop(key, None)
TPop(c, key) == AfterCall(Pop(Heap, c, key))

\* temp_id.resolve(new_id)
TResolve(q, new_id) ==
    LET h == resolve(Heap, q, new_id)
    IN  /\ DictCall
        /\ dicts' = h.d
        /\ binds' = h.b
        /\ err' = h.err
        /\ resolved' = IF h.err = "" THEN (q :> new_id) @@ resolved ELSE resolved
        /\ UNCHANGED <<next_id, dbvars>>

InitTemp ==
    /\ next_id = <<>>
    /\ dicts = [c \in Containers |-> {}]
    /\ binds = <<>>
    /\ resolved = <<>>
    /\ err = ""
    /\ diff_prefix = [s \in Sessions |-> <<"UnitTest", 0>>]
    /\ store = InitialStore
    /\ diff = [key \in {DiffKey(s, diff_prefix[s], t) : s \in Sessions, t \in TableNames}
                |-> <<>>]
    /\ added_item_id = [s \in Sessions |-> EmptyDiffDict]
    /\ updated_item_id = [s \in Sessions |-> EmptyDiffDict]
    /\ removed_item_id = [s \in Sessions |-> EmptyDiffDict]
    /\ dirty_item_id = [s \in Sessions |-> EmptyDiffDict]
    /\ attrs = [s \in Sessions |-> [view \in ViewNames |-> NoAlias]]
    /\ orm = [s \in Sessions |-> TableNames]
    /\ result = [s \in Sessions |-> "new"]
    /\ errors = [s \in Sessions |-> <<>>]
    /\ batch = [s \in Sessions |-> NoBatch]
    /\ written = [s \in Sessions |-> <<>>]
    /\ calls = 0

NextTemp ==
    \/ \E t \in ItemTypes : TNew(t)
    \/ \E c \in Containers, k \in KeyObjects, v \in ValueObjects : TSetItem(c, k, v)
    \/ \E c \in Containers, k \in KeyObjects : TDelItem(c, k)
    \/ \E c \in Containers, k \in KeyObjects, v \in ValueObjects : TSetDefault(c, k, v)
    \/ \E c \in Containers, k \in KeyObjects : TPop(c, k)
    \/ \E q \in Outstanding : TResolve(q, RealId)

SpecTemp == InitTemp /\ [][NextTemp]_vars

(***************************************************************************)
(* The subquery attributes on their own: one mapping, every property read, *)
(* every table marked dirty.                                               *)
(***************************************************************************)
\* reading any subquery property
CacheRead(s, view) == ReadView(s, view)

\* _mark_as_dirty(tablename, ids)
MarkDirty(s, tablename, ids) ==
    /\ Call
    /\ SetMapping(s, _mark_as_dirty(Mapping(s), tablename, ids))
    /\ SetResult(s, "ok")
    /\ UNCHANGED <<heapvars, diff_prefix, store, diff, written>>

InitCache ==
    /\ Init
    /\ diff_prefix = [s \in Sessions |-> <<"UnitTest", 0>>]

\* _clear_subqueries(*tablenames), called on its own
ClearSubqueries(s, tablenames) ==
    /\ Call
    /\ attrs' = [attrs EXCEPT ![s] = _clear_subqueries(@, tablenames)]
    /\ SetResult(s, "cleared")
    /\ UNCHANGED <<heapvars, diff_prefix, store, diff, added_item_id,
                   updated_item_id, removed_item_id, dirty_item_id, written>>

NextCache ==
    \/ \E view \in ViewNames : CacheRead(1, view)
    \/ \E t \in TableNames : ClearSubqueries(1, {t})
    \/ \E t \in TableNames, id \in {1, 2} : MarkDirty(1, t, {IntOf(id)})

SpecCache == InitCache /\ [][NextCache]_vars

(***************************************************************************)
(* The bulk entry points with their two modes (specification 4.3, 6): one  *)
(* mapping, calls of several items, valid or not.                          *)
(***************************************************************************)
\* calls made in one run
MaxBatchCalls == 2
\* items of one call
MaxBatch == 2

BatchNames == {"", "pluto", "dory"}
\* an identifier no row has
Dangling == IntOf(9)

\* the items a bulk call is made with: the valid ones, and ones with an
\* empty name, a reference to no row, or a natural key that is taken
BatchItems(s, tablename) ==
    LET classes == IdsOf(CurrentRows(s, "object_class")) \cup {Dangling}
        ids == IdsOf(CurrentRows(s, "object")) \cup {Dangling}
    IN  CASE tablename = "object_class" ->
                {Item(None, None, Str(n), <<>>) : n \in BatchNames}
          [] tablename = "object" ->
                {Item(c, None, Str(n), <<>>) : c \in classes, n \in Names}
          [] tablename = "relationship" ->
                {Item(None, None, None, <<a>>) : a \in ids}
                    \cup {Item(None, None, n, <<a, a>>) :
                            a \in ids \ {Dangling}, n \in {None, Str("pluto")}}

BatchTables == {"object_class", "object", "relationship"}

Batches(s, tablename) ==
    UNION {[1..n -> BatchItems(s, tablename)] : n \in 1..MaxBatch}

\* required attributes: a name that is not empty
NameOk(tablename, item) ==
    tablename \in {"object_class", "object"} => item.name # Str("")

\* referential integrity: the references of the item are rows of the
\* current view of the table they point to
RefsOk(s, tablename, item) ==
    LET ids == IdsOf(CurrentRows(s, RefTable(tablename, "ref")))
    IN  /\ item.ref # None => \E id \in ids : PyEq(id, item.ref)
        /\ item.ref2 # None =>
                \E id \in IdsOf(CurrentRows(s, RefTable(tablename, "ref2"))) :
                    PyEq(id, item.ref2)
        /\ \A i \in 1..Len(item.mem) : \E id \in ids : PyEq(id, item.mem[i])

\* why the validator turns the item down, "" when it does not
Reason(s, tablename, item) ==
    IF ~NameOk(tablename, item) THEN "empty name"
    ELSE IF ~RefsOk(s, tablename, item) THEN "dangling reference"
    ELSE IF KeyTaken(s, tablename, item, None) THEN "duplicate key"
    ELSE ""

\* two items of a call with the same natural key
SameItemKey(tablename, a, b) ==
    CASE tablename = "object_class" -> a.name = b.name
      [] tablename = "object" -> PyEq(a.ref, b.ref) /\ a.name = b.name
      [] tablename = "relationship" ->
            /\ Len(a.mem) = Len(b.mem)
            /\ \A i \in 1..Len(a.mem) : PyEq(a.mem[i], b.mem[i])
      [] OTHER -> PyEq(a.ref, b.ref) /\ PyEq(a.ref2, b.ref2)

RECURSIVE Collapse_keep_last(_, _, _)
\* the items of a call without the earlier duplicates
Collapse_keep_last(tablename, items, i) ==
    IF i > Len(items) THEN <<>>
    ELSE (IF \E j \in (i + 1)..Len(items) : SameItemKey(tablename, items[j], items[i])
          THEN <<>> ELSE <<items[i]>>)
            \o Collapse_keep_last(tablename, items, i + 1)

RECURSIVE Collapse(_, _, _)
\* the items of a call without the later duplicates
Collapse(tablename, items, i) ==
    IF i > Len(items) THEN <<>>
    ELSE (IF \E j \in 1..(i - 1) : SameItemKey(tablename, items[j], items[i])
          THEN <<>> ELSE <<items[i]>>)
            \o Collapse(tablename, items, i + 1)

\* the state a bulk call works on
StageStart(s) == [h |-> Heap, next |-> next_id, diff |-> diff, m |-> Mapping(s)]

\* stage_add of one item: allocate a placeholder, keep the record, add to
\* `added`
AddOne(x, s, tablename, item) ==
    LET p == NewTempId(x.next, tablename)
        c == NewContainer(x.h.d)
        h0 == [x.h EXCEPT !.b = (p :> NoBinds) @@ @]
    IN  [h |-> SetItem(Construct(h0, c, Kwargs(tablename, item)),
                       c, F("id"), Scalar(p)),
         next |-> AfterNew(x.next, tablename),
         diff |-> [x.diff EXCEPT ![DiffTable(s, tablename)] = Append(@, c)],
         m |-> _mark_as_dirty([x.m EXCEPT !.added[tablename] = @ \cup {p}],
                              tablename, {p})]

RECURSIVE AddAll(_, _, _, _, _)
AddAll(x, s, tablename, items, i) ==
    IF i > Len(items) THEN x
    ELSE AddAll(AddOne(x, s, tablename, items[i]), s, tablename, items, i + 1)

\* the items of a call the validator lets through, and the (item, reason)
\* pairs of the others
Validated(s, tablename, kept) ==
    LET why == [i \in 1..Len(kept) |-> Reason(s, tablename, kept[i])]
        ok(i) == why[i] = ""
        no(i) == why[i] # ""
        idx == [i \in 1..Len(kept) |-> i]
        yes == SelectSeq(idx, ok)
        not == SelectSeq(idx, no)
    IN  [good |-> [k \in 1..Len(yes) |-> kept[yes[k]]],
         bad |-> [k \in 1..Len(not) |-> <<kept[not[k]], why[not[k]]>>]]

\* the valid items of a call are staged, in their order
StageAll(s, tablename, good) ==
    LET x == AddAll(StageStart(s), s, tablename, good, 1)
    IN  /\ Allocated + Len(good) <= MaxTempIds
        /\ next_id' = x.next
        /\ dicts' = x.h.d
        /\ binds' = x.h.b
        /\ diff' = x.diff
        /\ SetMapping(s, x.m)
        /\ UNCHANGED <<resolved, err, diff_prefix, store, written>>

\* add_items that, strict, stages the valid items before it raises
AddItems_partial(s, tablename, items, strict) ==
    LET v == Validated(s, tablename, Collapse(tablename, items, 1))
        good == v.good
        bad == v.bad
    IN  /\ calls < MaxBatchCalls
        /\ calls' = calls + 1
        /\ batch' = [batch EXCEPT ![s] =
                        [table |-> tablename, items |-> items, strict |-> strict]]
        /\ UNCHANGED orm
        /\ StageAll(s, tablename, good)
        /\ IF strict /\ bad # <<>>
           THEN /\ result' = [result EXCEPT ![s] = "integrity_error"]
                /\ errors' = [errors EXCEPT ![s] = <<bad[1]>>]
           ELSE /\ result' = [result EXCEPT ![s] = "ok"]
                /\ errors' = [errors EXCEPT ![s] = bad]

\* add_items(tablename, *items, strict): strict, the first violation aborts
\* the call; best effort, the valid items are staged and the others
\* reported
AddItems(s, tablename, items, strict) ==
    LET v == Validated(s, tablename, Collapse(tablename, items, 1))
        good == v.good
        bad == v.bad
    IN  /\ calls < MaxBatchCalls
        /\ calls' = calls + 1
        /\ batch' = [batch EXCEPT ![s] =
                        [table |-> tablename, items |-> items, strict |-> strict]]
        /\ UNCHANGED orm
        /\ IF strict /\ bad # <<>>
           THEN /\ result' = [result EXCEPT ![s] = "integrity_error"]
                /\ errors' = [errors EXCEPT ![s] = <<bad[1]>>]
                /\ UNCHANGED <<heapvars, diff_prefix, store, diff, added_item_id,
                               updated_item_id, removed_item_id, dirty_item_id,
                               attrs, written>>
           ELSE /\ result' = [result EXCEPT ![s] = "ok"]
                /\ errors' = [errors EXCEPT ![s] = bad]
                /\ StageAll(s, tablename, good)

NextBatch ==
    \/ \E t \in BatchTables : \E items \in Batches(1, t) : \E strict \in BOOLEAN :
            AddItems(1, t, items, strict)
    \/ /\ calls < MaxBatchCalls
       /\ \E t \in RowTables : \E id \in IdsOf(CurrentRows(1, t)) :
            \E n \in Names : StageUpdate(1, t, id, n)
    \/ /\ calls < MaxBatchCalls
       /\ \E t \in RowTables : \E id \in IdsOf(CurrentRows(1, t)) :
            StageRemove(1, t, id)
    \/ calls < MaxBatchCalls /\ CommitSucceeds(1)
    \/ calls < MaxBatchCalls /\ \E message \in {"", "msg"} : CommitRejected(1, message)

SpecBatch == InitCache /\ [][NextBatch]_vars

(***************************************************************************)
(* Removal with the metadata tables (specification 4.3, cascading          *)
(* removal): one mapping of a database that holds metadata records and     *)
(* the links of an object and of parameter values to them.                 *)
(***************************************************************************)
MetaTables == {"metadata", "entity_metadata", "parameter_value_metadata"}
LinkTables == {"entity_metadata", "parameter_value_metadata"}

\* the links the database may hold: (table, id, owner, metadata); in a
\* row, ref is the object or the parameter value and ref2 is the metadata
\* record
PossibleLinks ==
    {<<"entity_metadata", 1, 1, 1>>, <<"entity_metadata", 2, 1, 2>>,
     <<"parameter_value_metadata", 1, 1, 1>>, <<"parameter_value_metadata", 2, 2, 2>>,
     <<"parameter_value_metadata", 3, 2, 1>>}

\* a database with two metadata records and the given links
MetaStore(links) ==
    [t \in TableNames \cup MetaTables |->
        IF t = "metadata"
        THEN {Row(IntOf(1), 0, None, None, Str("nemo")),
              Row(IntOf(2), 0, None, None, Str("pluto"))}
        ELSE IF t \in LinkTables
        THEN {Row(IntOf(l[2]), 0, IntOf(l[3]), IntOf(l[4]), None) :
                l \in {x \in links : x[1] = t}}
        ELSE InitialStore[t]]

\* the rows a removal takes with it: the parameter values and
\* the entity links of a removed object, the value links of a removed
\* parameter value, the links to a removed metadata record, and the
\* metadata record of a removed link that no other link refers to
RECURSIVE MetaCascade(_)
MetaCascade(items) ==
    LET rows(t) == Range(CurrentRows(1, t))
        in(t, id) == \E it \in items : it[1] = t /\ PyEq(it[2], id)
        owner(t) == IF t = "entity_metadata" THEN "object" ELSE "parameter_value"
        step ==
            items
                \cup {<<"parameter_value", r.id>> :
                        r \in {q \in rows("parameter_value") : in("object", q.ref)}}
                \cup UNION {{<<t, r.id>> :
                                r \in {q \in rows(t) :
                                        in(owner(t), q.ref) \/ in("metadata", q.ref2)}} :
                            t \in LinkTables}
                \cup {<<"metadata", m.id>> :
                        m \in {q \in rows("metadata") :
                                /\ \E t \in LinkTables : \E r \in rows(t) :
                                        PyEq(r.ref2, q.id) /\ in(t, r.id)
                                /\ \A t \in LinkTables : \A r \in rows(t) :
                                        PyEq(r.ref2, q.id) => in(t, r.id)}}
    IN  IF step = items THEN items ELSE MetaCascade(step)

\* remove_items(tablename, id) with its cascade
MetaRemove(tablename, id) ==
    /\ Call
    /\ id \in IdsOf(CurrentRows(1, tablename))
    /\ SetMapping(1, MarkRemoved(Mapping(1), MetaCascade({<<tablename, id>>})))
    /\ SetResult(1, "ok")
    /\ UNCHANGED <<heapvars, diff_prefix, store, diff, written>>

InitMeta ==
    /\ next_id = <<>>
    /\ dicts = <<>>
    /\ binds = <<>>
    /\ resolved = <<>>
    /\ err = ""
    /\ diff_prefix = [s \in Sessions |-> <<"UnitTest", 0>>]
    /\ store \in {MetaStore(links) : links \in SUBSET PossibleLinks}
    /\ diff = [key \in {DiffKey(s, diff_prefix[s], t) :
                            s \in Sessions, t \in TableNames \cup MetaTables}
                |-> <<>>]
    /\ added_item_id = [s \in Sessions |-> [x \in TableNames \cup MetaTables |-> {}]]
    /\ updated_item_id = [s \in Sessions |-> [x \in TableNames \cup MetaTables |-> {}]]
    /\ removed_item_id = [s \in Sessions |-> [x \in TableNames \cup MetaTables |-> {}]]
    /\ dirty_item_id = [s \in Sessions |-> [x \in TableNames \cup MetaTables |-> {}]]
    /\ attrs = [s \in Sessions |-> [view \in ViewNames |-> NoAlias]]
    /\ orm = [s \in Sessions |-> TableNames]
    /\ result = [s \in Sessions |-> "new"]
    /\ errors = [s \in Sessions |-> <<>>]
    /\ batch = [s \in Sessions |-> NoBatch]
    /\ written = [s \in Sessions |-> <<>>]
    /\ calls = 0

NextMeta ==
    \E t \in {"object", "parameter_value"} \cup MetaTables :
        \E id \in IdsOf(CurrentRows(1, t)) : MetaRemove(t, id)

SpecMeta == InitMeta /\ [][NextMeta]_vars

(***************************************************************************)
(* The construction of a mapping: DatabaseMappingBase.__init__ and         *)
(* DiffDatabaseMappingBase.__init__, over a database of any revision.      *)
(***************************************************************************)
\* script.get_current_head(): the revision the code expects
head == "head"
\* a database at the revision; "" is a database without one
OpenStore(rev) ==
    [t \in TableNames \cup {"alembic_version"} |->
        IF t = "alembic_version"
        THEN IF rev = "" THEN {} ELSE {Row(None, 0, None, None, Str(rev))}
        ELSE InitialStore[t]]

\* migration_context.get_current_revision()
get_current_revision(st) ==
    IF st["alembic_version"] = {} THEN ""
    ELSE (CHOOSE r \in st["alembic_version"] : TRUE).name.ty

\* check_db_version that raises also when it is asked to upgrade
check_db_version_no_upgrade(st, upgrade) ==
    IF get_current_revision(st) = head
    THEN [raised |-> FALSE, store |-> st]
    ELSE [raised |-> TRUE, store |-> st]

\* check_db_version(upgrade): whether it raises SpineDBVersionError, and
\* the database it leaves
check_db_version(st, upgrade) ==
    IF get_current_revision(st) = head
    THEN [raised |-> FALSE, store |-> st]
    ELSE IF ~upgrade
         THEN [raised |-> TRUE, store |-> st]
         ELSE [raised |-> FALSE,
               store |-> [st EXCEPT !["alembic_version"] =
                                {Row(None, 0, None, None, Str(head))}]]

\* a mapping that has not been constructed: no diff dictionaries
NoMapping ==
    [added |-> <<>>, updated |-> <<>>, removed |-> <<>>, dirty |-> <<>>,
     attrs |-> [view \in ViewNames |-> NoAlias]]

\* DiffDatabaseMappingBase(url, username, upgrade) at the second now: the
\* attributes are set to None, the version is checked, then the classes
\* are mapped, and then the diff dictionaries are filled and the diff
\* tables created; their names start with "diff_" + self.username, which
\* raises TypeError when the username is None
__init__(s, username, upgrade, now) ==
    LET v == check_db_version(store, upgrade)
        prefix == <<username.ty, now>>
        others == {key \in DOMAIN diff : key.conn # s}
        created == {DiffKey(s, prefix, t) : t \in TableNames}
    IN  /\ Call
        /\ batch' = [batch EXCEPT ![s] = [table |-> "__init__",
                                          username |-> username,
                                          upgrade |-> upgrade]]
        /\ errors' = [errors EXCEPT ![s] = <<>>]
        /\ store' = v.store
        /\ IF v.raised
           THEN /\ result' = [result EXCEPT ![s] = "version_error"]
                /\ orm' = [orm EXCEPT ![s] = {}]
                /\ SetMapping(s, NoMapping)
                /\ diff_prefix' = [diff_prefix EXCEPT ![s] = <<"", 0>>]
                /\ diff' = [key \in others |-> diff[key]]
           ELSE IF username.kind # "str"
           THEN /\ result' = [result EXCEPT ![s] = "type_error"]
                /\ orm' = [orm EXCEPT ![s] = TableNames]
                /\ SetMapping(s, _init_diff_dicts(NoMapping))
                /\ diff_prefix' = [diff_prefix EXCEPT ![s] = <<"", 0>>]
                /\ diff' = [key \in others |-> diff[key]]
           ELSE /\ result' = [result EXCEPT ![s] = "opened"]
                /\ orm' = [orm EXCEPT ![s] = TableNames]
                /\ SetMapping(s, _init_diff_dicts(NoMapping))
                /\ diff_prefix' = [diff_prefix EXCEPT ![s] = prefix]
                /\ diff' = [key \in others \cup created |->
                                IF key \in created THEN <<>> ELSE diff[key]]
        /\ UNCHANGED <<heapvars, written>>

InitOpen ==
    /\ next_id = <<>>
    /\ dicts = <<>>
    /\ binds = <<>>
    /\ resolved = <<>>
    /\ err = ""
    /\ diff_prefix = [s \in Sessions |-> <<"", 0>>]
    /\ store \in {OpenStore(rev) : rev \in {"", "old", head}}
    /\ diff = <<>>
    /\ added_item_id = [s \in Sessions |-> <<>>]
    /\ updated_item_id = [s \in Sessions |-> <<>>]
    /\ removed_item_id = [s \in Sessions |-> <<>>]
    /\ dirty_item_id = [s \in Sessions |-> <<>>]
    /\ attrs = [s \in Sessions |-> NoMapping.attrs]
    /\ orm = [s \in Sessions |-> {}]
    /\ result = [s \in Sessions |-> "new"]
    /\ errors = [s \in Sessions |-> <<>>]
    /\ batch = [s \in Sessions |-> NoBatch]
    /\ written = [s \in Sessions |-> <<>>]
    /\ calls = 0

\* a client constructs a mapping and, once it has one, reads and stages
NextOpen ==
    \/ \E username \in {Str("UnitTest"), None}, upgrade \in BOOLEAN, now \in Seconds :
            __init__(1, username, upgrade, now)
    \/ /\ result[1] \in {"opened", "read", "ok", "integrity_error"}
       /\ \E view \in ReadViews : ReadView(1, view)
    \/ /\ result[1] \in {"opened", "read", "ok", "integrity_error"}
       /\ \E t \in RowTables : \E item \in Items(1, t) : StageAdd(1, t, item)

SpecOpen == InitOpen /\ [][NextOpen]_vars

(***************************************************************************)
(* The conversion of legacy mapping documents:                             *)
(* spinedb_api/import_mapping/import_mapping_compat.py, _pos_and_val.      *)
(***************************************************************************)
\* the largest absolute value of an integer reference
MaxRef == 3

\* a member of the enumeration Position (spine_io/mapping.py): it is no
\* integer and no string
Position(name) == [kind |-> "position", ty |-> name, v |-> 0]
\* a key the dictionary does not have
Absent == [kind |-> "absent", ty |-> "", v |-> 0]
Float(n) == [kind |-> "float", ty |-> "", v |-> n]

MapDict(map_type, reference, value_reference) ==
    [kind |-> "dict", map_type |-> map_type, reference |-> reference,
     value_reference |-> value_reference]

\* dict.get(key, default), given the value under the key
get(value, default) == IF value = Absent THEN default ELSE value

\* the strings that int() accepts, among the strings of the model
Numerals == ("2" :> 2) @@ ("-3" :> -3)

\* int(ref) inside try ... except ValueError: pass
int(ref) ==
    IF ref.kind = "str" /\ ref.ty \in DOMAIN Numerals
    THEN IntOf(Numerals[ref.ty])
    ELSE ref

\* str.lower() on the strings of the model
lower(s) == IF s = "Header" THEN "header" ELSE s

Return(pos, val) == [raised |-> "", pos |-> pos, val |-> val]
Raises(e) == [raised |-> e, pos |-> None, val |-> None]

\* _pos_and_val with a row reference negated and not shifted by one
_pos_and_val_unshifted(x) ==
    LET map_dict == IF x.kind # "dict"
                    THEN MapDict(IF x.kind = "str" THEN Str("constant")
                                 ELSE Str("column"), x, Absent)
                    ELSE x
        map_type == get(map_dict.map_type, None)
        ref0 == get(map_dict.reference, get(map_dict.value_reference, None))
        ref == IF ref0 = Str("") THEN None ELSE ref0
        n == int(ref)
    IN  IF map_type = Str("None") \/ ref = None
        THEN Return(Position("hidden"), None)
        ELSE IF map_type = Str("constant")
        THEN IF ref.kind # "str" THEN Raises("TypeError")
             ELSE Return(Position("hidden"), ref)
        ELSE IF map_type = Str("table_name")
        THEN Return(Position("table_name"), None)
        ELSE IF ref.kind \notin {"str", "int"} THEN Raises("TypeError")
        ELSE IF map_type \in {Str("column_name"), Str("column_header")}
        THEN Return(Position("header"),
                    IF ref.kind = "int" /\ ref.v < 0 THEN IntOf(0) ELSE ref)
        ELSE IF map_type = Str("column")
        THEN Return(IF n.kind = "int" /\ n.v < 0 THEN IntOf(0) ELSE n, None)
        ELSE IF map_type = Str("row")
        THEN IF n.kind = "int"
             THEN IF n.v = -1 THEN Return(Position("header"), None)
                  ELSE Return(IntOf(-(IF n.v < -1 THEN 0 ELSE n.v)), None)
             ELSE IF lower(n.ty) = "header"
                  THEN Return(Position("header"), None)
                  ELSE Raises("ValueError")
        ELSE Return(Position("hidden"), None)

\* _pos_and_val(x): the position and the constant value of one mapping of
\* a legacy document
_pos_and_val(x) ==
    LET map_dict == IF x.kind # "dict"
                    THEN MapDict(IF x.kind = "str" THEN Str("constant")
                                 ELSE Str("column"), x, Absent)
                    ELSE x
        map_type == get(map_dict.map_type, None)
        ref0 == get(map_dict.reference, get(map_dict.value_reference, None))
        ref == IF ref0 = Str("") THEN None ELSE ref0
        n == int(ref)
    IN  IF map_type = Str("None") \/ ref = None
        THEN Return(Position("hidden"), None)
        ELSE IF map_type = Str("constant")
        THEN IF ref.kind # "str" THEN Raises("TypeError")
             ELSE Return(Position("hidden"), ref)
        ELSE IF map_type = Str("table_name")
        THEN Return(Position("table_name"), None)
        ELSE IF ref.kind \notin {"str", "int"} THEN Raises("TypeError")
        ELSE IF map_type \in {Str("column_name"), Str("column_header")}
        THEN Return(Position("header"),
                    IF ref.kind = "int" /\ ref.v < 0 THEN IntOf(0) ELSE ref)
        ELSE IF map_type = Str("column")
        THEN Return(IF n.kind = "int" /\ n.v < 0 THEN IntOf(0) ELSE n, None)
        ELSE IF map_type = Str("row")
        THEN IF n.kind = "int"
             THEN IF n.v = -1 THEN Return(Position("header"), None)
                  ELSE Return(IntOf(-((IF n.v < -1 THEN 0 ELSE n.v) + 1)), None)
             ELSE IF lower(n.ty) = "header"
                  THEN Return(Position("header"), None)
                  ELSE Raises("ValueError")
        ELSE Return(Position("hidden"), None)

\* the references of the legacy documents of the model
References ==
    {IntOf(n) : n \in (0 - MaxRef)..MaxRef}
        \cup {Str(s) : s \in {"", "header", "Header", "2", "-3", "abc"}}
        \cup {None, Float(1)}
MapTypes ==
    {Str(m) : m \in {"None", "constant", "table_name", "column_name",
                     "column_header", "column", "row", "parameter"}}
        \cup {Absent}
\* what a legacy document holds for one mapping: a bare reference or a
\* dictionary
LegacyMappings ==
    References \cup
    {MapDict(m, r, vr) : m \in MapTypes, r \in References \cup {Absent},
                         vr \in {Absent, IntOf(1)}}

\* _object_class_mapping_from_dict and the other converters: a mapping is
\* constructed from the position and value of the legacy mapping x
Convert(x) ==
    LET r == _pos_and_val(x) IN
    /\ batch' = [batch EXCEPT ![1] = [table |-> "_pos_and_val", x |-> x]]
    /\ result' = [result EXCEPT
                    ![1] = IF r.raised = "" THEN "returned" ELSE r.raised]
    /\ written' = [written EXCEPT
                    ![1] = IF r.raised = "" THEN <<r.pos, r.val>> ELSE <<>>]
    /\ UNCHANGED <<heapvars, diff_prefix, store, diff, added_item_id,
                   updated_item_id, removed_item_id, dirty_item_id, attrs,
                   orm, errors, calls>>

InitPos ==
    /\ next_id = <<>>
    /\ dicts = <<>>
    /\ binds = <<>>
    /\ resolved = <<>>
    /\ err = ""
    /\ diff_prefix = [s \in Sessions |-> <<"", 0>>]
    /\ store = <<>>
    /\ diff = <<>>
    /\ added_item_id = [s \in Sessions |-> <<>>]
    /\ updated_item_id = [s \in Sessions |-> <<>>]
    /\ removed_item_id = [s \in Sessions |-> <<>>]
    /\ dirty_item_id = [s \in Sessions |-> <<>>]
    /\ attrs = [s \in Sessions |-> <<>>]
    /\ orm = [s \in Sessions |-> {}]
    /\ result = [s \in Sessions |-> "new"]
    /\ errors = [s \in Sessions |-> <<>>]
    /\ batch = [s \in Sessions |-> NoBatch]
    /\ written = [s \in Sessions |-> <<>>]
    /\ calls = 0

\* legacy mappings are converted one after the other
NextPos == \E x \in LegacyMappings : Convert(x)

SpecPos == InitPos /\ [][NextPos]_vars

(***************************************************************************)
(* The claims of the specification.                                        *)
(***************************************************************************)
\* the subquery property that selects everything from a table
ViewOf(tablename) == CHOOSE view \in BaseViews : BaseTable[view] = tablename

\* the view of a table as the specification composes it (4.2): the rows of
\* the store that are not dirty, then the staged rows
Composed(s, tablename) ==
    LET keep(r) == NotIn(r.id, dirty_item_id[s][tablename])
    IN  SelectSeq(SortRows(store[tablename]), keep)
            \o DiffRows(tablename, diff[DiffTable(s, tablename)], dicts)

\* a staging call of the session on the table
StagedOn(s, t) ==
    \/ \E item \in Items(s, t) : StageAdd(s, t, item)
    \/ \E id \in IdsOf(CurrentRows(s, t)) : \E n \in Names : StageUpdate(s, t, id, n)
    \/ \E id \in IdsOf(CurrentRows(s, t)) : StageRemove(s, t, id)

\* C1: once a placeholder is resolved, no dictionary holds it as a value, as
\* an element of a tuple value, as a key or as an element of a tuple key.
C1_ResolutionTotal ==
    \A q \in DOMAIN resolved : \A c \in DOMAIN dicts : \A e \in dicts[c] :
        q \notin TempIdsIn(e.k) \cup TempIdsIn(e.v)

\* C2: right after a stage_add, stage_update or stage_remove on a table, the
\* subquery property of the table returns the content the call has left,
\* whether or not the property was read before.
C2_ViewAfterMutation ==
    [][\A s \in Sessions, t \in RowTables :
            StagedOn(s, t) => ViewRows(s, ViewOf(t))' = Composed(s, t)']_vars

\* C3: the subquery property of a table returns the rows of the store whose
\* identifier is not dirty, followed by the rows staged for the table.
C3_ViewIsComposed ==
    \A s \in Sessions, t \in RowTables : ViewRows(s, ViewOf(t)) = Composed(s, t)

\* the staged records of a mapping, as they read
StagedRecords(s) ==
    [t \in RowTables |-> DiffRows(t, diff[DiffTable(s, t)], dicts)]

\* C4: a commit that fails leaves the store, the diff dictionaries, the diff
\* tables and the staged records, placeholders included, as they were.
C4_FailedCommitRestores ==
    [][\A s \in Sessions :
            (\E k \in 0..Len(Queue(s)) : CommitFails(s, k)) =>
                /\ store' = store
                /\ diff' = diff
                /\ Mapping(s)' = Mapping(s)
                /\ StagedRecords(s)' = StagedRecords(s)]_vars

\* C5: no row a commit writes to the database carries a placeholder as its
\* identifier or as a reference, a member of a relationship included.
C5_NoPlaceholderWritten ==
    \A s \in Sessions : \A i \in 1..Len(written[s]) :
        /\ ~IsTempId(written[s][i].id)
        /\ ~IsTempId(written[s][i].ref)
        /\ ~IsTempId(written[s][i].ref2)

\* a commit has gone through that wrote a relationship whose member was a
\* placeholder when it was staged
C5_Witness ==
    \E s \in Sessions : \E q \in DOMAIN resolved :
        /\ result[s] = "committed"
        /\ binds[q].tvb # <<>>
        /\ \E i \in 1..Len(written[s]) : written[s][i].ref = resolved[q]

\* C6: no row that the subquery properties return references an item the
\* session has removed.
C6_CascadeComplete ==
    \A s \in Sessions, t \in RowTables : \A id \in removed_item_id[s][t] :
        \A u \in RowTables : \A r \in Range(ViewRows(s, ViewOf(u))) :
            ~Refers(u, r, t, id)

\* the subquery property reads the rows of the table, itself or through the
\* properties it is composed of
Reads(view, tablename) ==
    \E w \in Closure(view) \cap BaseViews : BaseTable[w] = tablename

\* C7: _mark_as_dirty of a table leaves no subquery attribute set that reads
\* the table, at any depth of composition.
C7_Invalidation ==
    [][\A s \in Sessions, t \in TableNames :
            (\E id \in {1, 2} : MarkDirty(s, t, {IntOf(id)})) =>
                \A view \in ViewNames :
                    Reads(view, t) => attrs'[s][view] = NoAlias]_vars

\* object is dirty, the properties composed of object_sq are evicted and
\* relationship_sq, which they are composed of too, is still cached
C7_Witness ==
    /\ dirty_item_id[1]["object"] # {}
    /\ attrs[1]["relationship_sq"] # NoAlias
    /\ attrs[1]["ext_relationship_sq"] = NoAlias
    /\ attrs[1]["wide_relationship_sq"] = NoAlias
    /\ attrs[1]["relationship_parameter_value_sq"] = NoAlias
    /\ attrs[1]["parameter_value_sq"] # NoAlias

\* what a session observes: its diff dictionaries and subquery attributes,
\* the rows it reads and the placeholders it would be allocated next
Observed(s) ==
    [mapping |-> Mapping(s),
     rows |-> [t \in RowTables |-> CurrentRows(s, t)],
     views |-> [t \in RowTables |-> ViewRows(s, ViewOf(t))],
     next |-> [t \in RowTables |-> NewTempId(next_id, t)]]

\* C8: a staging call or a read of one session changes nothing of what the
\* other session observes.
C8_SessionsIndependent ==
    [][\A s \in Sessions, o \in Sessions :
            (/\ o # s
             /\ \/ \E t \in RowTables : StagedOn(o, t)
                \/ \E view \in ReadViews : ReadView(o, view)) =>
                Observed(s)' = Observed(s)]_vars

\* the rows of a table a session reads, through _subquery or the property
Visible(s, t) == Range(CurrentRows(s, t)) \cup Range(ViewRows(s, ViewOf(t)))

\* C9: a session reads no row another session has added and not committed,
\* and for an identifier the other session has updated it reads the row of
\* the store or its own staged row.
C9_Isolation ==
    \A s \in Sessions : \A o \in Sessions \ {s} : \A t \in RowTables :
        \A r \in Visible(s, t) :
            /\ r.id \notin added_item_id[o][t]
            /\ ~NotIn(r.id, updated_item_id[o][t]) =>
                    r \in store[t] \/ ~NotIn(r.id, dirty_item_id[s][t])

\* two mappings constructed by one user in one second, one has added an
\* object, the other has read object_sq
C9_Witness ==
    \E s \in Sessions : \E o \in Sessions \ {s} :
        /\ diff_prefix[s] = diff_prefix[o]
        /\ added_item_id[o]["object"] # {}
        /\ attrs[s]["object_sq"] # NoAlias

C11_StagingLeavesStore ==
    [][store' # store => \E s \in Sessions : CommitSucceeds(s)]_vars

\* a session has staged an addition and a removal and the store is the one
\* the sessions were opened on
C11_Witness ==
    /\ store = InitialStore
    /\ \E s \in Sessions :
        /\ \E t \in RowTables : added_item_id[s][t] # {}
        /\ \E t \in RowTables : removed_item_id[s][t] # {}

\* C12: for every mapping and every table, dirty_item_id is the union of
\* added_item_id, updated_item_id and removed_item_id.
C12_DirtyIsUnion ==
    \A s \in Sessions, t \in TableNames :
        dirty_item_id[s][t] =
            added_item_id[s][t] \cup updated_item_id[s][t] \cup removed_item_id[s][t]

\* a mapping with an added, an updated and a removed identifier
C12_Witness ==
    \E s \in Sessions :
        /\ \E t \in RowTables : added_item_id[s][t] # {}
        /\ \E t \in RowTables : updated_item_id[s][t] # {}
        /\ \E t \in RowTables : removed_item_id[s][t] # {}

\* the places of an entry a placeholder appears at are in its bind lists
Registered(q, c, e) ==
    /\ (IsTempIdObj(e.v) /\ AtomOf(e.v) = q) =>
            \E i \in 1..Len(binds[q].vb) :
                binds[q].vb[i][1] = c /\ ObjEq(binds[q].vb[i][2], e.k)
    /\ (IsTuple(e.v) /\ q \in TempIdsIn(e.v)) =>
            \E i \in 1..Len(binds[q].tvb) :
                binds[q].tvb[i][1] = c /\ ObjEq(binds[q].tvb[i][2], e.k)
    /\ (IsTempIdObj(e.k) /\ AtomOf(e.k) = q) =>
            \E i \in 1..Len(binds[q].kb) : binds[q].kb[i] = c
    /\ (IsTuple(e.k) /\ q \in TempIdsIn(e.k)) =>
            \E i \in 1..Len(binds[q].tkb) :
                binds[q].tkb[i][1] = c /\ ObjEq(binds[q].tkb[i][2], e.k)

\* C13: every place of a dictionary entry where a placeholder appears (the
\* value, an element of a tuple value, the key, an element of a tuple key)
\* is in the bind lists of the placeholder.
C13_BindsComplete ==
    \A q \in Outstanding : \A c \in DOMAIN dicts : \A e \in dicts[c] :
        Registered(q, c, e)

\* C14: a placeholder that has been resolved has four empty bind lists.
C14_BindsDrained ==
    \A q \in DOMAIN resolved : binds[q] = NoBinds

\* what a container holds under a key: the value, or nothing
Slot(c, k) == IF HasKey(dicts[c], k) THEN {GetItem(dicts[c], k)} ELSE {}

\* the value binds and tuple value binds of a placeholder whose key does not
\* hold the placeholder
ValueBinds(q) ==
    {b \in Range(binds[q].vb) \cup Range(binds[q].tvb) : q \notin TempIdsIn(b[2])}

\* C15: resolve raises no error, and a bound location that does not hold
\* the placeholder any more (the key is gone or the value was overwritten)
\* is after resolve as it was before.
C15_StaleBindsSkipped ==
    [][\A q \in Outstanding :
            TResolve(q, RealId) =>
                /\ err' = ""
                /\ \A b \in ValueBinds(q) :
                        (\A v \in Slot(b[1], b[2]) : q \notin TempIdsIn(v)) =>
                            Slot(b[1], b[2])' = Slot(b[1], b[2])]_vars

\* C16: for every tuple value bind of the placeholder whose location holds
\* a tuple, resolve raises no error and leaves at the location the tuple of
\* the same length with the placeholder replaced by the real id and every
\* other element where it was.
C16_TupleValueRewritten ==
    [][\A q \in Outstanding :
            TResolve(q, RealId) =>
                \A b \in {x \in Range(binds[q].tvb) : q \notin TempIdsIn(x[2])} :
                    \A v \in Slot(b[1], b[2]) :
                        IsTuple(v) =>
                            /\ err' = ""
                            /\ Slot(b[1], b[2])' = {Substitute(v, q, RealId)}]_vars

\* an object with the placeholder replaced by the real id
Resolved(x, q, new_id) ==
    IF IsTuple(x) THEN Substitute(x, q, new_id)
    ELSE IF x = Scalar(q) THEN Scalar(new_id) ELSE x

\* C17: for every key bound container that has the placeholder as a key,
\* resolve leaves the real id mapped to the value the placeholder mapped to,
\* the placeholder no key, and every other entry as it was but for the
\* placeholder in it.
C17_KeyRewritten ==
    [][\A q \in Outstanding :
            TResolve(q, RealId) =>
                \A c \in Range(binds[q].kb) :
                    (HasKey(dicts[c], Scalar(q)) /\ ~HasKey(dicts[c], Scalar(RealId))) =>
                        /\ err' = ""
                        /\ Slot(c, Scalar(RealId))' =
                                {Resolved(GetItem(dicts[c], Scalar(q)), q, RealId)}
                        /\ ~HasKey(dicts'[c], Scalar(q))
                        /\ \A e \in dicts[c] :
                                (q \notin TempIdsIn(e.k) \cup TempIdsIn(e.v)) =>
                                    e \in dicts'[c]
                        /\ \A n \in dicts'[c] :
                                ObjEq(n.k, Scalar(RealId)) \/ \E e \in dicts[c] :
                                    /\ n.k \in {e.k, Resolved(e.k, q, RealId)}
                                    /\ n.v \in {e.v, Resolved(e.v, q, RealId)}]_vars

\* C18: an entry whose tuple key holds the placeholder is, after resolve,
\* under the tuple with the real id at the placeholder's position, with the
\* value it had, and no entry is left under the key it was under.
C18_CompositeKeyRewritten ==
    [][\A q \in Outstanding :
            TResolve(q, RealId) =>
                \A c \in DOMAIN dicts : \A e \in dicts[c] :
                    (/\ IsTuple(e.k)
                     /\ q \in TempIdsIn(e.k)
                     /\ ~HasKey(dicts[c], Substitute(e.k, q, RealId))) =>
                        /\ err' = ""
                        /\ ~HasKey(dicts'[c], e.k)
                        /\ Slot(c, Substitute(e.k, q, RealId))' =
                                {Resolved(e.v, q, RealId)}]_vars

\* C19: resolve of a placeholder with four empty bind lists changes no
\* container and raises no error.
C19_UnboundResolveIsNoOp ==
    [][\A q \in Outstanding :
            (binds[q] = NoBinds /\ TResolve(q, RealId)) =>
                (dicts' = dicts /\ err' = "")]_vars

\* a placeholder without binds has been resolved while a container had
\* entries
C19_Witness ==
    \E q \in DOMAIN resolved :
        /\ binds[q] = NoBinds
        /\ \E c \in DOMAIN dicts : dicts[c] # {}

\* C20: an allocation returns a placeholder that was not allocated before
\* and whose value is below the value of every earlier placeholder of its
\* type.
C20_AllocationMonotonic ==
    [][\A t \in ItemTypes :
            TNew(t) =>
                \E n \in DOMAIN binds' \ DOMAIN binds :
                    /\ n.ty = t
                    /\ \A q \in DOMAIN binds : q.ty = t => n.v < q.v]_vars

\* two placeholders of one type have been allocated
C20_Witness ==
    \E p \in DOMAIN binds : \E q \in DOMAIN binds \ {p} : p.ty = q.ty

\* the identifiers the database has assigned: those of the rows of the
\* tables and those the placeholders were resolved to
RealIds ==
    UNION {{r.id : r \in store[t]} : t \in TableNames}
        \cup {resolved[q] : q \in DOMAIN resolved}

\* C21: a placeholder is below zero, and it is equal to no identifier the
\* database has assigned.
C21_PlaceholderNeverReal ==
    \A p \in DOMAIN binds :
        /\ p.v < 0
        /\ \A id \in RealIds : ~PyEq(p, id)

\* a commit has given a placeholder its real identifier
C21_Witness ==
    /\ DOMAIN resolved # {}
    /\ \E t \in RowTables : store[t] # InitialStore[t]

\* the indices of the items of a call that the validator turns down
Invalid(s, tablename, items) ==
    {i \in 1..Len(items) : Reason(s, tablename, items[i]) # ""}

\* a call of two or more items with different natural keys, exactly one of
\* which is invalid
OneInvalid(s, tablename, items) ==
    /\ Len(items) >= 2
    /\ Collapse(tablename, items, 1) = items
    /\ Cardinality(Invalid(s, tablename, items)) = 1

\* C22: a bulk call with exactly one invalid item among N valid ones:
\* strict, it raises one error and the staging state is as before; best
\* effort, it does not raise, stages the N valid items and returns the
\* invalid item with its reason as its one error.
C22_StrictBestEffortParity ==
    [][\A s \in Sessions :
        LET b == batch'[s]
            t == b.table
            i == CHOOSE k \in Invalid(s, t, b.items) : TRUE
            n == Len(b.items) - 1
        IN  (calls' # calls /\ b # NoBatch /\ OneInvalid(s, t, b.items)) =>
                IF b.strict
                THEN /\ result'[s] = "integrity_error"
                     /\ Len(errors'[s]) = 1
                     /\ diff' = diff
                     /\ Mapping(s)' = Mapping(s)
                     /\ StagedRecords(s)' = StagedRecords(s)
                ELSE /\ result'[s] = "ok"
                     /\ errors'[s] = <<<<b.items[i], Reason(s, t, b.items[i])>>>>
                     /\ Len(diff'[DiffTable(s, t)]) = Len(diff[DiffTable(s, t)]) + n
                     /\ Cardinality(added_item_id'[s][t]) =
                            Cardinality(added_item_id[s][t]) + n
                     /\ \A u \in BatchTables : \A item \in BatchItems(s, u) :
                            \A k \in 1..Len(b.items) :
                                (u = t /\ item = b.items[k]) =>
                                    IF k # i THEN KeyTaken(s, u, item, None)'
                                    ELSE ~KeyTaken(s, u, item, None) =>
                                            ~KeyTaken(s, u, item, None)']_vars

\* a best effort call of several items has staged all of them but one and
\* returned one error
C22_Witness ==
    \E s \in Sessions :
        /\ batch[s] # NoBatch
        /\ ~batch[s].strict
        /\ Len(batch[s].items) >= 2
        /\ Len(errors[s]) = 1
        /\ Cardinality(added_item_id[s][batch[s].table]) = Len(batch[s].items) - 1

\* the natural key of a row of the composed view of a table
NaturalKey(tablename, rows, r) ==
    CASE tablename = "object_class" -> <<r.name>>
      [] tablename = "object" -> <<r.ref.v, r.name>>
      [] tablename = "relationship" ->
            [i \in 1..Len(Members(rows, r.id)) |-> Members(rows, r.id)[i].v]
      [] OTHER -> <<r.ref.v, r.ref2.v>>

\* the natural key of an item of a call
ItemKey(tablename, item) ==
    CASE tablename = "object_class" -> <<item.name>>
      [] tablename = "object" -> <<item.ref.v, item.name>>
      [] tablename = "relationship" -> [i \in 1..Len(item.mem) |-> item.mem[i].v]
      [] OTHER -> <<item.ref.v, item.ref2.v>>

\* the natural keys of the rows of the composed view of a table
KeysOf(s, tablename) ==
    {NaturalKey(tablename, Composed(s, tablename), r) :
        r \in Range(Composed(s, tablename))}

\* no two rows of the composed view of a table share their natural key
UniqueKeys(s, tablename) ==
    \A r1 \in Range(Composed(s, tablename)) :
        \A r2 \in Range(Composed(s, tablename)) :
            r1.id.v # r2.id.v =>
                NaturalKey(tablename, Composed(s, tablename), r1)
                    # NaturalKey(tablename, Composed(s, tablename), r2)

\* the number of rows of the composed view of a table, a relationship
\* counted once
RowCount(s, tablename) ==
    Cardinality({r.id.v : r \in Range(Composed(s, tablename))})

\* C23: no two rows of the composed view of a table (the rows of the store
\* that are not dirty, then the staged rows) share their natural key; and
\* a call that adds one item whose natural key a row of the view holds,
\* committed or staged, is turned down with an integrity error and adds no
\* row.
C23_NaturalKeysUnique ==
    /\ [](\A t \in RowTables : UniqueKeys(1, t))
    /\ [][\A s \in Sessions :
            LET b == batch'[s]
            IN  (/\ calls' # calls
                 /\ b # NoBatch
                 /\ Len(b.items) = 1
                 /\ \E u \in BatchTables :
                        u = b.table /\ ItemKey(u, b.items[1]) \in KeysOf(s, u)) =>
                    /\ IF b.strict THEN result'[s] = "integrity_error"
                       ELSE Len(errors'[s]) = 1 /\ errors'[s][1][1] = b.items[1]
                    /\ \A u \in RowTables : RowCount(s, u)' = RowCount(s, u)]_vars

\* a staged row and a row of the store are in the composed view of a
\* table, and a call that adds an item with the natural key of one of them
\* has been turned down
C23_Witness ==
    \E t \in BatchTables :
        /\ added_item_id[1][t] # {}
        /\ Len(Composed(1, t)) >= 2
        /\ batch[1] # NoBatch
        /\ batch[1].table = t
        /\ Len(batch[1].items) = 1
        /\ Len(errors[1]) = 1
        /\ errors[1][1][2] = "duplicate key"

\* the identifier is that of a row of the composed view of the table
VisibleId(s, tablename, id) ==
    \E r \in Range(Composed(s, tablename)) : PyEq(r.id, id)

\* the references of a row are rows of the composed views of the tables
\* they point to
RowResolves(s, tablename, r) ==
    /\ r.ref # None => VisibleId(s, RefTable(tablename, "ref"), r.ref)
    /\ r.ref2 # None => VisibleId(s, RefTable(tablename, "ref2"), r.ref2)

\* the references of an item of a call: its class or object, its
\* relationship, its members
ItemRefs(item) ==
    ({item.ref} \ {None}) \cup {item.mem[i] : i \in 1..Len(item.mem)}

\* C24: every reference of every row of the composed view of a table is
\* the identifier, real or placeholder, of a row of the composed view of
\* the table it points to; and a call that adds one item with a reference
\* to no such row is turned down with an integrity error and adds no row.
C24_ReferencesResolve ==
    /\ [](\A t \in RowTables : \A r \in Range(Composed(1, t)) : RowResolves(1, t, r))
    /\ [][\A s \in Sessions :
            LET b == batch'[s]
            IN  (/\ calls' # calls
                 /\ b # NoBatch
                 /\ Len(b.items) = 1
                 /\ \E u \in BatchTables : \E id \in ItemRefs(b.items[1]) :
                        u = b.table /\ ~VisibleId(s, RefTable(u, "ref"), id)) =>
                    /\ IF b.strict THEN result'[s] = "integrity_error"
                       ELSE Len(errors'[s]) = 1 /\ errors'[s][1][1] = b.items[1]
                    /\ \A u \in RowTables : RowCount(s, u)' = RowCount(s, u)]_vars

\* a staged row references a staged row through its placeholder, and a
\* call that adds an item with a reference to no row has been turned down
C24_Witness ==
    /\ \E t \in RowTables : \E r \in Range(Composed(1, t)) :
            IsTempId(r.ref) /\ VisibleId(1, RefTable(t, "ref"), r.ref)
    /\ batch[1] # NoBatch
    /\ Len(errors[1]) = 1
    /\ errors[1][1][2] = "dangling reference"

\* the indices of the items of a call that come after an item with the
\* same natural key
Later(tablename, items) ==
    {j \in 1..Len(items) :
        \E i \in 1..(j - 1) : ItemKey(tablename, items[i]) = ItemKey(tablename, items[j])}

\* the first item of a call with the natural key of the item
First(tablename, items, item) ==
    items[CHOOSE i \in 1..Len(items) :
            /\ ItemKey(tablename, items[i]) = ItemKey(tablename, item)
            /\ \A j \in 1..(i - 1) :
                    ItemKey(tablename, items[j]) # ItemKey(tablename, item)]

\* C25: a best effort call with several items of one natural key, the
\* first of them valid, does not raise, leaves one row with that key in
\* the composed view, the row of the first of the items, and returns no
\* error for the items of that key.
C25_DuplicatesCollapsed ==
    [][\A s \in Sessions :
        LET b == batch'[s]
        IN  (calls' # calls /\ b # NoBatch /\ ~b.strict) =>
                \A u \in BatchTables : \A j \in Later(b.table, b.items) :
                    \A item \in BatchItems(s, u) :
                        (u = b.table /\ item = b.items[j] /\ Reason(s, u, item) = "") =>
                            /\ result'[s] = "ok"
                            /\ LET rows == Composed(s, u)'
                                   same == {q \in Range(rows) :
                                        NaturalKey(u, rows, q) = ItemKey(u, item)}
                               IN  /\ Cardinality({q.id.v : q \in same}) = 1
                                   /\ \A q \in same :
                                        q.name = First(u, b.items, item).name
                            /\ \A k \in 1..Len(errors'[s]) :
                                    ItemKey(u, errors'[s][k][1]) # ItemKey(u, item)]_vars

\* a best effort call of items that all have one natural key has staged
\* one row and returned no error
C25_Witness ==
    /\ batch[1] # NoBatch
    /\ ~batch[1].strict
    /\ Len(batch[1].items) >= 2
    /\ batch[1].items[1] # batch[1].items[2]
    /\ Cardinality(Later(batch[1].table, batch[1].items)) = Len(batch[1].items) - 1
    /\ errors[1] = <<>>
    /\ Cardinality(added_item_id[1][batch[1].table]) = 1

\* the links that are not removed and refer to the metadata record
LinksTo(m) ==
    UNION {{<<t, r.id>> :
                r \in {q \in store[t] :
                        PyEq(q.ref2, m) /\ NotIn(q.id, removed_item_id[1][t])}} :
            t \in LinkTables}

\* C26: removing a link removes the metadata record it pointed to exactly
\* when no link, entity or value, that is not removed refers to the
\* record; and no removal takes a metadata record with it that a link
\* which is not removed refers to.
C26_MetadataCascade ==
    [][/\ \A t \in LinkTables : \A l \in store[t] :
            MetaRemove(t, l.id) =>
                (~NotIn(l.ref2, removed_item_id'[1]["metadata"])
                    <=> LinksTo(l.ref2)' = {})
       /\ \A m \in store["metadata"] :
            (/\ NotIn(m.id, removed_item_id[1]["metadata"])
             /\ ~NotIn(m.id, removed_item_id'[1]["metadata"])) =>
                LinksTo(m.id)' = {}]_vars

\* the entity link of a metadata record has been removed and the record
\* is kept for the value link that refers to it, and the one link of
\* another record has been removed together with the record
C26_Witness ==
    /\ \E m \in store["metadata"] :
        /\ NotIn(m.id, removed_item_id[1]["metadata"])
        /\ LinksTo(m.id) # {}
        /\ \E r \in store["entity_metadata"] :
                PyEq(r.ref2, m.id) /\ ~NotIn(r.id, removed_item_id[1]["entity_metadata"])
    /\ \E m \in store["metadata"] :
        /\ ~NotIn(m.id, removed_item_id[1]["metadata"])
        /\ \A t \in {"object", "parameter_value"} : removed_item_id[1][t] = {}

\* the staging state of the one client: its diff sets, the staged rows
\* and what its views cache
StagingState == <<Mapping(1), diff, dicts, binds, next_id>>

\* C27: a commit with an empty message fails with the empty message
\* error, also when changes are staged, and writes nothing: the database,
\* the diff sets and the staged rows are as before the call.
C27_EmptyMessageRejected ==
    [][(calls' # calls /\ result'[1] = "empty_message") =>
            /\ store' = store
            /\ written' = written
            /\ resolved' = resolved
            /\ StagingState' = StagingState]_vars

\* an empty message has been rejected while a row was staged
C27_Witness ==
    /\ result[1] = "empty_message"
    /\ added_item_id[1]["object_class"] # {}
    /\ Composed(1, "object_class") # <<>>

\* C28: a commit with a message and nothing staged never goes through: a
\* call made while nothing is staged ends in no commit, and the call that
\* fails with nothing to commit leaves the database and the staging state
\* as they were, however many calls came before it.
C28_NothingToCommit ==
    [][/\ (calls' # calls /\ NothingStaged(1)) =>
            /\ result'[1] \notin {"committed", "persistence_error"}
            /\ store'["commit"] = store["commit"]
       /\ (calls' # calls /\ result'[1] = "nothing_to_commit") =>
            /\ NothingStaged(1)
            /\ store' = store
            /\ written' = written
            /\ StagingState' = StagingState]_vars

\* two calls, the last one a commit with nothing staged, and the database
\* is the one the client opened
C28_Witness ==
    /\ calls = MaxBatchCalls
    /\ result[1] = "nothing_to_commit"
    /\ next_id = <<>>
    /\ store = InitialStore

\* the members of a relationship of the current view, in the order of
\* their dimensions
MemberRows(s, id) ==
    OrderBy({r \in Range(Composed(s, "relationship")) : PyEq(r.id, id)})

\* the row is the one the wide view owes the relationship: its name, and
\* the identifier and the name of the member of each dimension
WideRowOf(s, w, id) ==
    LET members == MemberRows(s, id)
    IN  /\ PyEq(w.id, id)
        /\ w.name = members[1].name
        /\ Len(w.object_id_list) = Len(members)
        /\ Len(w.object_name_list) = Len(members)
        /\ \A k \in 1..Len(members) :
            /\ PyEq(w.object_id_list[k], members[k].ref)
            /\ \E o \in Range(Composed(s, "object")) :
                    PyEq(o.id, members[k].ref) /\ w.object_name_list[k] = o.name

\* the identifier the commit gives a row
RealOf(id) == IF id \in DOMAIN resolved THEN resolved[id] ELSE id

\* C29: the wide relationship view has exactly one row for each
\* relationship of the current view, staged ones included, with the
\* identifiers and names of its members in the order of the dimensions,
\* and no other row; a commit keeps the row of each relationship, under
\* the identifiers the database assigned.
C29_WideRelationshipView ==
    /\ [](/\ \A id \in IdsOf(Composed(1, "relationship")) :
                Cardinality({w \in wide_relationship_sq(1) : PyEq(w.id, id)}) = 1
          /\ \A w \in wide_relationship_sq(1) :
                \E id \in IdsOf(Composed(1, "relationship")) : WideRowOf(1, w, id))
    /\ [][result'[1] = "committed" /\ calls' # calls =>
            \A w \in wide_relationship_sq(1) :
                \E x \in wide_relationship_sq(1)' :
                    /\ PyEq(x.id, RealOf(w.id)')
                    /\ x.name = w.name
                    /\ Len(x.object_id_list) = Len(w.object_id_list)
                    /\ x.object_name_list = w.object_name_list
                    /\ \A k \in 1..Len(w.object_id_list) :
                        PyEq(x.object_id_list[k], RealOf(w.object_id_list[k])')]_vars

\* C30: the construction of a mapping fails with the version error
\* exactly when the revision of the database is not the expected one and
\* no upgrade was asked for; it then fails before a class is mapped, a
\* diff dictionary filled or a diff table created, and leaves the
\* database alone.  A database at the expected revision never gives the
\* version error.
C30_VersionGate ==
    [][(calls' # calls /\ batch'[1].table = "__init__") =>
            /\ result'[1] = "version_error" <=>
                    (get_current_revision(store) # head /\ ~batch'[1].upgrade)
            /\ result'[1] = "version_error" =>
                    /\ orm'[1] = {}
                    /\ Mapping(1)' = NoMapping
                    /\ \A key \in DOMAIN diff' : key.conn # 1
                    /\ store' = store
            /\ get_current_revision(store) = head => result'[1] # "version_error"]_vars

\* a construction without upgrade has failed over a database that is not
\* at the expected revision
C30_Witness ==
    /\ result[1] = "version_error"
    /\ batch[1].table = "__init__"
    /\ ~batch[1].upgrade
    /\ get_current_revision(store) = "old"
    /\ orm[1] = {}

\* C31: a mapping constructed with the username None is constructed with
\* the username "anon": unless the version check fails, the construction
\* succeeds and the names of its diff tables carry "anon".
C31_AnonymousUsername ==
    [][(/\ calls' # calls
        /\ batch'[1].table = "__init__"
        /\ batch'[1].username = None
        /\ result'[1] # "version_error") =>
            /\ result'[1] = "opened"
            /\ diff_prefix'[1][1] = "anon"
            /\ \A t \in TableNames : DiffTable(1, t)' \in DOMAIN diff']_vars

\* C32: _clear_subqueries of a table leaves every subquery attribute that
\* does not read the table, itself or through the properties it is
\* composed of, as it was, and with it the diff dictionaries, the mapped
\* classes, the diff tables and the database.
C32_EvictionFrame ==
    [][\A t \in TableNames :
            ClearSubqueries(1, {t}) =>
                /\ \A view \in ViewNames :
                        ~Reads(view, t) => attrs'[1][view] = attrs[1][view]
                /\ added_item_id' = added_item_id
                /\ updated_item_id' = updated_item_id
                /\ removed_item_id' = removed_item_id
                /\ dirty_item_id' = dirty_item_id
                /\ orm' = orm
                /\ diff_prefix' = diff_prefix
                /\ diff' = diff
                /\ store' = store]_vars

\* a table has been cleared whose rows object_sq and wide_relationship_sq
\* do not read, a property that reads it is evicted and the two are still
\* cached
C32_Witness ==
    /\ result[1] = "cleared"
    /\ attrs[1]["object_sq"] # NoAlias
    /\ attrs[1]["wide_relationship_sq"] # NoAlias
    /\ attrs[1]["parameter_value_sq"] = NoAlias
    /\ attrs[1]["object_parameter_value_sq"] = NoAlias
    /\ calls = MaxCalls

\* no entry of the container holds the placeholder, and no key that a value
\* bind of the placeholder names is a key of the container: the entries
\* the placeholder was bound through are gone
EntriesGone(q, c) ==
    /\ \A e \in dicts[c] : q \notin TempIdsIn(e.k) \cup TempIdsIn(e.v)
    /\ \A b \in Range(binds[q].vb) \cup Range(binds[q].tvb) :
            b[1] = c => ~HasKey(dicts[c], b[2])

\* C33: resolve of a placeholder leaves a container as it was when the
\* entries of the container the placeholder was bound through, as key,
\* element of a tuple key, value or element of a tuple value, have been
\* removed before.
C33_RemovedEntryStaysRemoved ==
    [][\A q \in Outstanding :
            TResolve(q, RealId) =>
                \A c \in DOMAIN dicts :
                    EntriesGone(q, c) => dicts'[c] = dicts[c]]_vars

RECURSIVE CascadeSteps(_, _, _)
\* the items after n rounds of the cascade
CascadeSteps(s, items, n) ==
    IF n = 0 THEN items ELSE CascadeSteps(s, CascadeStep(s, items), n - 1)

StagedRow(s, tablename, id) ==
    CHOOSE r \in Range(DiffRows(tablename, diff[DiffTable(s, tablename)], dicts)) :
        PyEq(r.id, id)

\* the rows of the subquery property of a table with the identifier
RowsWithId(s, tablename, id) ==
    LET rows == ViewRows(s, ViewOf(tablename))
    IN  {i \in 1..Len(rows) : PyEq(rows[i].id, id)}

\* the identifiers the mapping has updated and not removed
UpdatedIds(s, tablename) ==
    {id \in updated_item_id[s][tablename] : NotIn(id, removed_item_id[s][tablename])}

\* C35: the subquery property of a table has, for every identifier that was
\* updated, committed before or staged in this session, exactly one row,
\* and the row carries the name of the update; the same after the commit,
\* under the identifier the database assigned.
C35_UpdatedRowIsTheOnlyRow ==
    /\ [](\A t \in RowTables : \A id \in UpdatedIds(1, t) :
            /\ Cardinality(RowsWithId(1, t, id)) = 1
            /\ \A i \in RowsWithId(1, t, id) :
                    ViewRows(1, ViewOf(t))[i].name = StagedRow(1, t, id).name)
    /\ [][(calls' # calls /\ result'[1] = "committed") =>
            \A t \in RowTables : \A id \in UpdatedIds(1, t) :
                \A name \in {StagedRow(1, t, id).name} :
                \A real \in {x \in {RealOf(id)'} : TRUE} :
                    /\ Cardinality(RowsWithId(1, t, real)') = 1
                    /\ \A i \in RowsWithId(1, t, real)' :
                            ViewRows(1, ViewOf(t))'[i].name = name]_vars

\* the identifiers a mapping has added and removed again
AddedAndRemoved(s, tablename) ==
    {id \in added_item_id[s][tablename] : ~NotIn(id, removed_item_id[s][tablename])}

\* C36: an item that was added and removed again before a commit is in no
\* view of its table, the subquery property or the composed one; the
\* commit writes no row for it and gives it no identifier, the table gets
\* the rows that were added and not removed and no other, and the item is
\* in no view after the commit.
C36_AddedThenRemoved ==
    /\ [](\A s \in Sessions, t \in RowTables : \A id \in AddedAndRemoved(s, t) :
            /\ RowsWithId(s, t, id) = {}
            /\ ~VisibleId(s, t, id))
    /\ [][\A s \in Sessions :
            CommitSucceeds(s) =>
                \A t \in RowTables : \A id \in AddedAndRemoved(s, t) :
                    /\ id \notin DOMAIN resolved'
                    /\ \A i \in 1..Len(written'[s]) : ~PyEq(written'[s][i].id, id)
                    /\ {r.id : r \in store'[t]} \ {r.id : r \in store[t]} =
                            {resolved'[q] : q \in {x \in added_item_id[s][t] :
                                                    NotIn(x, removed_item_id[s][t])}}
                    /\ RowsWithId(s, t, id)' = {}
                    /\ ~VisibleId(s, t, id)']_vars

\* the first mapping has added an item, removed it and committed, and no
\* placeholder was given an identifier
C36_Witness ==
    /\ calls = MaxCalls
    /\ result[1] = "committed"
    /\ result[2] = "new"
    /\ next_id # <<>>
    /\ resolved = <<>>
    /\ Cardinality(store["commit"]) = 1

\* C37: two outstanding placeholders of different types are not equal, and
\* a container that has one of them as a key gets a second entry when the
\* other is set as a key: both are keys of it afterwards.
C37_TypesKeepPlaceholdersApart ==
    /\ [](\A p \in Outstanding : \A q \in Outstanding : p.ty # q.ty => ~PyEq(p, q))
    /\ [][\A c \in Containers : \A p \in Outstanding : \A q \in Outstanding :
            \A v \in ValueObjects :
                (/\ p.ty # q.ty
                 /\ \E e \in dicts[c] : e.k = Scalar(p)
                 /\ TSetItem(c, Scalar(q), v)
                 /\ err' = "") =>
                    /\ \E e \in dicts'[c] : e.k = Scalar(p)
                    /\ \E e \in dicts'[c] : e.k = Scalar(q)]_vars

\* the containers after the first placeholder is resolved to 5 and the
\* second to 6, in this order
ResolvedInOrder(p, q) ==
    resolve(resolve(Heap, p, IntOf(5)), q, IntOf(6)).d

\* the containers after the same resolutions, the second placeholder first
ResolvedInReverse(p, q) ==
    resolve(resolve(Heap, q, IntOf(6)), p, IntOf(5)).d

\* C38: resolving two outstanding placeholders leaves every container with
\* the same entries whichever of the two is resolved first.
C38_ResolveOrderIrrelevant ==
    \A p \in Outstanding : \A q \in Outstanding \ {p} :
        ResolvedInOrder(p, q) = ResolvedInReverse(p, q)

\* the key is a placeholder or a tuple that holds one
PlaceholderKey(k) == TempIdsIn(k) # {}

\* C39: del and pop of an entry whose key is a placeholder, or a tuple
\* that holds a placeholder, raise no error, whatever the value of the
\* entry is.
C39_RemovalNeverRaises ==
    [][\A c \in Containers : \A k \in KeyObjects :
            (/\ PlaceholderKey(k)
             /\ HasKey(dicts[c], k)
             /\ (TDelItem(c, k) \/ TPop(c, k))) =>
                err' = ""]_vars

\* the last conversion was of a mapping of this type with an integer
\* reference, and it returned
Converted(map_type) ==
    /\ batch[1].table = "_pos_and_val"
    /\ result[1] = "returned"
    /\ batch[1].x.kind = "dict"
    /\ batch[1].x.map_type = Str(map_type)
    /\ batch[1].x.reference.kind = "int"
ConvertedRef == batch[1].x.reference.v
ConvertedPos == written[1][1]

\* the conversion of this step is of a mapping of this type with the
\* integer reference n, and it returns
Converts(map_type, n) ==
    \E vr \in {Absent, IntOf(1)} :
        /\ Convert(MapDict(Str(map_type), IntOf(n), vr))
        /\ result'[1] = "returned"

\* C40: a row mapping with an integer reference converts to a negative
\* position, or to the header position when the reference is -1; a column
\* mapping with an integer reference converts to a non-negative position;
\* the position of a row mapping is never the position of a column
\* mapping, and two row mappings with distinct non-negative references
\* convert to distinct positions.
C40_RowAndColumnPositions ==
    /\ [](Converted("row") =>
            IF ConvertedRef = -1
            THEN ConvertedPos = Position("header")
            ELSE ConvertedPos.kind = "int" /\ ConvertedPos.v < 0)
    /\ [](Converted("column") =>
            ConvertedPos.kind = "int" /\ ConvertedPos.v >= 0)
    /\ [][\A n \in (0 - MaxRef)..MaxRef :
            /\ (Converted("row") /\ Converts("column", n)) =>
                    written'[1][1] # ConvertedPos
            /\ (Converted("column") /\ Converts("row", n)) =>
                    written'[1][1] # ConvertedPos
            /\ (/\ Converted("row")
                /\ ConvertedRef >= 0
                /\ n >= 0
                /\ n # ConvertedRef
                /\ Converts("row", n)) =>
                    written'[1][1] # ConvertedPos]_vars
C40_Witness ==
    /\ Converted("row")
    /\ ConvertedRef = 2
    /\ ConvertedPos = IntOf(-3)

=============================================================================
